---- MODULE Spec2Model ----
(***************************************************************************)
(* State-machine model of the LAN traffic monitor:                         *)
(*   - the ARP redirection engine   (python/arp/arp_gateway.py)            *)
(*   - the blocking policy engine   (python/blocking/blocker.py,           *)
(*                                   categories.py, schedules.py)          *)
(*   - the proxy traffic interceptor (python/https/transparent_proxy.py)   *)
(*   - the DNS interceptor          (python/dns/dns_blocker.py) and the    *)
(*     host's routing switch        (python/arp/ip_forwarding.py)          *)
(*   - the device inventory         (python/arp/device_scanner.py,         *)
(*                                   python/database/db_manager.py)        *)
(*   - the control plane            (python/main.py)                       *)
(* Each subsystem has its own specification over the shared variable       *)
(* tuple; the variables of the other subsystems stay at their initial      *)
(* values.                                                                 *)
(***************************************************************************)
EXTENDS Integers, Sequences, FiniteSets, TLC

VARIABLES
    \* ---- ARP engine (ARPGateway fields) ----
    targets,        \* self.targets: insertion-ordered dict, as a sequence of TargetDevice
    gateway_ip,     \* self.gateway_ip
    gateway_mac,    \* self.gateway_mac
    running,        \* self.running
    spoof_thread,   \* self.spoof_thread: id of the last thread created, 0 = None
    threads,        \* every _spoof_loop thread ever created: position and snapshot
    ctl,            \* the calling thread: which ARPGateway method it is in, and where
    wire,           \* the frames handed to sendp() by the last step
    \* ---- ARP engine: history of the run (observations, not program state) ----
    restoreLog,     \* per target: true-mapping restore frames sent by the call in progress
    removedRestored,\* targets whose remove_target() has sent its restore frames
    stopRestoring,  \* stop() has sent a restore frame and no start() succeeded since
    lastStart,      \* what the most recent start() returned: "none", "ok", "failed"
    everStartOk,    \* some start() has resolved the gateway and started its thread
    callback,       \* the events the step passed to self.callback
    failures,       \* per target, its consecutive failed spoof sends so far
    quiet_mode,     \* self.quiet_mode
    spoof_interval, \* self.spoof_interval, in seconds
    sendp_raises,   \* the interface is one on which sendp() can raise
    \* ---- blocking policy (BlockingEngine and ScheduleManager fields) ----
    blocked_domains,      \* self.blocked_domains: set of str
    whitelisted_domains,  \* self.whitelisted_domains: set of str
    blocked_categories,   \* self.blocked_categories: set of BlockCategory
    blocked_keywords,     \* self.blocked_keywords: list of str
    url_patterns,         \* self.url_patterns: list of compiled patterns (their source)
    custom_rules,         \* self.custom_rules: insertion-ordered dict of BlockRule
    schedules,            \* schedule_manager.schedules: insertion-ordered dict of Schedule
    config_file,          \* the blocklist file as last written by _save_config
    schedule_file,        \* the schedule file as last written by _save_schedules
    clock,                \* index into Instants: what datetime.now() returns
    \* ---- blocking policy: the caller of check() ----
    request,              \* the arguments of the check() call the caller last made
    decision,             \* the BlockDecision check() returned for it under the current policy
    prior,                \* what check() returned for it before the policy operation made since
    roundtrip,            \* the policy before the block_domain(d) that started a block/unblock pair
    \* ---- HTTPS proxy (ProxyConfig, TrafficInterceptor and the flows mitmproxy hands it) ----
    block_list,           \* config.block_list: set of str
    category_blocks,      \* config.category_blocks: set of TrafficCategory
    active_flows,         \* the keys of TrafficInterceptor.active_flows
    flows,                \* the mitmproxy HTTPFlow objects, by flow id
    emitted,              \* per flow id, the event types passed to event_callback, in order
    command,              \* the last configuration command: its output line and the policy before it
    keyword_alerts,       \* config.keyword_alerts: list of str
    flow_alerts,          \* per flow id, the keyword alerts its response hook raised
    block_iter,           \* the set iterator of the _should_block call in progress, if any
    \* ---- the operating system's routing switch (ip_forwarding.py writes it) ----
    ip_forward,           \* IPEnableRouter / "forwarding=enabled" on the interface
    forwardBefore,        \* history: the switch as the host had it before the first successful start()
    \* ---- DNS interceptor (DNSBlocker fields and the packets on the interface) ----
    dns_domains,          \* DNSBlocker.blocked_domains: set of str
    block_mode,           \* DNSBlocker.block_mode
    blocked_log,          \* DNSBlocker.blocked_log; blocked_count is its length
    dns_packets,          \* the DNS packets seen on the interface, by arrival slot
    dns_sent,             \* per slot, the packets the interceptor handed to send(), in order
    dns_iter,             \* the set iterator of the is_blocked call in progress, if any
    \* ---- device inventory (DeviceScanner.devices and the devices table) ----
    scan_devices,         \* DeviceScanner.devices: dict keyed by IP
    observed,             \* history: every hwsrc a scan has received
    db_devices,           \* the rows of the devices table
    scan_todo,            \* per thread in scan(): the replies it has not come to yet, and the reply whose hostname it is looking up
    \* ---- control plane (NetworkMonitor fields and its stdout) ----
    mon,                  \* the monitor: where its caller is, is_running, its component objects
    stream,               \* the event types written to stdout by emit(), in order
    handled,              \* history: how many capture callbacks have run
    alerts_due,           \* history: how many of them were for something that calls for an alert
    \* ---- a caller of ScheduleManager ----
    asked,                \* the is_active_now / should_block call in progress, with its "now"
    answer,                \* what that call returned
    \* ---- DNS capture (DNSCapture fields) ----
    capture_blocklist,    \* DNSCapture.blocklist
    captured,    \* per slot, the DNSQuery the capture passed to its callback for the packet
    capture_seen,    \* per slot, the blocklist the capture held when it looked at the packet
    capture_iter,    \* the set iterator of the _is_blocked call in progress, if any
    \* ---- CA factory (CertificateGenerator and its directory) ----
    cert_dir,    \* the certificate directory: per base name, what its .key, .crt, .pem and .cer files hold
    cert_calls,    \* per caller, where it is in generate_ca_certificate and what it holds in memory
    cert_metadata,    \* cert_metadata.json: the list of generated certificates
    cert_time,    \* datetime.now(), in seconds
    cert_made,    \* the number of CA keys generate_ca_certificate was asked for so far
    cert_overwritten,    \* history: some generation wrote over files that were there
    \* ---- DNS parser (a DNSParser.parse call) ----
    parser,    \* DNSParser.parse in progress: its data and the locals of parse and _parse_name
    parse_result,    \* what the last parse call returned
    \* ---- keywordVars ----
    kw_file,    \* the keywords array of config/keywords.json
    kw_pc,    \* none before KeywordMatcher() is constructed, loaded after
    kw_keywords,    \* self.keywords, in insertion order
    kw_printed,    \* the lines _load_keywords printed
    kw_matches,    \* ids of the keywords in the last match() result, or the exception it raised
    kw_calls,    \* the number of calls made so far that change the keyword set
    kw_predefined_disabled,    \* the ids of PREDEFINED_KEYWORDS whose enabled is False
    kw_shared,    \* the ids of self.keywords whose Keyword is the object PREDEFINED_KEYWORDS holds
    \* ---- dbVars ----
    traffic,    \* the committed rows of table traffic
    traffic_fts,    \* the committed entries of the full-text index traffic_fts
    db_clock,    \* datetime.now(), in days
    db_result,    \* what the last DatabaseManager call returned or raised
    \* ---- rtVars ----
    rt_kind,    \* what is serialised: a schedule, a keyword or an engine policy
    rt_input,    \* the object handed to to_dict or held by the engine at _save_config
    rt_doc,    \* the document written, when there is one
    rt_output,    \* the object from_dict or _load_config built from the document
    \* ---- notifierVars ----
    n_config,    \* self.config: the quiet hours and the rate limits
    n_clock,    \* index of datetime.now() among the instants
    n_times,    \* self._notification_times, per key the time of the last accepted notification
    n_hour_start,    \* self._hour_start
    n_hourly_count,    \* self._hourly_count
    n_queue,    \* self._queue
    n_sending,    \* self._sending
    n_senders,    \* the _sender_loop threads and where each stands
    n_caller,    \* where the caller of notify() stands
    n_handed,    \* the notifications handed to _send_notification, in order
    n_made,    \* number of notifications notify() has accepted
    n_check,    \* the last notify() call: its arguments, what the checks said, what it returned
    n_accepted    \* the key and time of every notification the rate limit accepted

arpVars == <<targets, gateway_ip, gateway_mac, running, spoof_thread, threads,
             ctl, wire, restoreLog,
             removedRestored, stopRestoring, lastStart, everStartOk,
             callback, failures>>

\* changed by set_quiet_mode only
quietVars == <<quiet_mode, spoof_interval, sendp_raises>>

policyVars == <<blocked_domains, whitelisted_domains, blocked_categories,
                blocked_keywords, url_patterns, custom_rules, schedules,
                config_file, schedule_file, clock, request, decision, prior,
                roundtrip>>

proxyVars == <<block_list, category_blocks, active_flows, flows, emitted, command,
               keyword_alerts, flow_alerts, block_iter>>

osVars == <<ip_forward, forwardBefore>>

dnsVars == <<dns_domains, block_mode, blocked_log, dns_packets, dns_sent, dns_iter>>

devVars == <<scan_devices, observed, db_devices, scan_todo>>

monVars == <<mon, stream, handled, alerts_due>>

callVars == <<asked, answer>>

captureVars == <<capture_blocklist, captured, capture_seen, capture_iter>>

certVars == <<cert_dir, cert_metadata, cert_time, cert_made, cert_overwritten, cert_calls>>

parseVars == <<parser, parse_result>>

keywordVars == <<kw_file, kw_pc, kw_keywords, kw_printed, kw_matches, kw_calls,
                 kw_predefined_disabled, kw_shared>>

dbVars == <<traffic, traffic_fts, db_clock, db_result>>

rtVars == <<rt_kind, rt_input, rt_doc, rt_output>>

notifierVars == <<n_config, n_clock, n_times, n_hour_start, n_hourly_count, n_queue, n_sending, n_senders, n_caller, n_handed, n_made, n_check, n_accepted>>

vars == <<arpVars, quietVars, notifierVars, rtVars, dbVars, keywordVars, parseVars, certVars, captureVars, policyVars, proxyVars, osVars, dnsVars,
          devVars, monVars, callVars>>

\* what the operations of one component leave alone
notEngine  == <<notifierVars, rtVars, dbVars, keywordVars, parseVars, certVars, captureVars, policyVars, proxyVars, dnsVars, devVars, monVars, callVars>>
notArpOs   == <<quietVars, notEngine>>
notArp     == <<osVars, notArpOs>>
notPolicy  == <<arpVars, quietVars, notifierVars, rtVars, dbVars, keywordVars, parseVars, certVars, captureVars, proxyVars, osVars, dnsVars, devVars, monVars, callVars>>
notProxy   == <<arpVars, quietVars, notifierVars, rtVars, dbVars, keywordVars, parseVars, certVars, captureVars, policyVars, osVars, dnsVars, devVars, monVars, callVars>>
notDns     == <<arpVars, quietVars, notifierVars, rtVars, dbVars, keywordVars, parseVars, certVars, captureVars, policyVars, proxyVars, osVars, devVars, monVars, callVars>>
notDevices == <<arpVars, quietVars, notifierVars, rtVars, dbVars, keywordVars, parseVars, certVars, captureVars, policyVars, proxyVars, osVars, dnsVars, monVars, callVars>>
notMonitor == <<arpVars, quietVars, notifierVars, rtVars, dbVars, keywordVars, parseVars, certVars, captureVars, policyVars, proxyVars, osVars, dnsVars, devVars, callVars>>
notMonitorOs == <<arpVars, quietVars, notifierVars, rtVars, dbVars, keywordVars, parseVars, certVars, captureVars, policyVars, proxyVars, dnsVars, devVars, callVars>>
notScheduleCall == <<arpVars, quietVars, notifierVars, rtVars, dbVars, keywordVars, parseVars, certVars, captureVars, policyVars, proxyVars, osVars, dnsVars, devVars, monVars>>
notCapture == <<arpVars, quietVars, notifierVars, rtVars, dbVars, keywordVars, parseVars, certVars, policyVars, proxyVars, osVars, dnsVars, devVars, monVars, callVars>>
notCert == <<arpVars, quietVars, notifierVars, rtVars, dbVars, keywordVars, parseVars, captureVars, policyVars, proxyVars, osVars, dnsVars, devVars, monVars, callVars>>
notParse == <<arpVars, quietVars, notifierVars, rtVars, dbVars, keywordVars, certVars, captureVars, policyVars, proxyVars, osVars, dnsVars, devVars, monVars, callVars>>
notKeywords == <<arpVars, quietVars, notifierVars, rtVars, dbVars, parseVars, certVars, captureVars, policyVars, proxyVars, osVars, dnsVars, devVars, monVars, callVars>>
notDb == <<arpVars, quietVars, notifierVars, rtVars, keywordVars, parseVars, certVars, captureVars, policyVars, proxyVars, osVars, dnsVars, devVars, monVars, callVars>>
notRt == <<arpVars, quietVars, notifierVars, dbVars, keywordVars, parseVars, certVars, captureVars, policyVars, proxyVars, osVars, dnsVars, devVars, monVars, callVars>>
notNotifier == <<arpVars, quietVars, rtVars, dbVars, keywordVars, parseVars, certVars, captureVars, policyVars, proxyVars, osVars, dnsVars, devVars, monVars, callVars>>

None == "None"

(***************************************************************************)
(* ARP engine: the network the engine is attached to.                      *)
(***************************************************************************)
MaxThreads == 2          \* bound on the number of _spoof_loop threads created
MaxFailures == 3         \* bound on the consecutive failed sends counted per target
MaxFlakyThreads == 1     \* bound on the threads created on an interface whose sends can raise

GatewayIP == "192.168.1.1"
TargetIPs == {"192.168.1.77", "192.168.1.78"}
OurMac    == "0a:00:00:00:00:99"

\* The address each host really owns, as getmacbyip() reports it.
TrueMac(ip) ==
    CASE ip = "192.168.1.1"  -> "cc:dd:00:00:00:22"
      [] ip = "192.168.1.77" -> "aa:bb:00:00:00:11"
      [] ip = "192.168.1.78" -> "aa:bb:00:00:00:12"
      [] OTHER -> None

\* str.upper() on the link-layer addresses of this network.
MacUpper(m) ==
    CASE m = "cc:dd:00:00:00:22" -> "CC:DD:00:00:00:22"
      [] m = "aa:bb:00:00:00:11" -> "AA:BB:00:00:00:11"
      [] m = "aa:bb:00:00:00:12" -> "AA:BB:00:00:00:12"
      [] m = "0a:00:00:00:00:99" -> "0A:00:00:00:00:99"
      [] OTHER -> m

\* Link-layer addresses are case-insensitive hexadecimal.
SameMac(a, b) == a # None /\ b # None /\ MacUpper(a) = MacUpper(b)

TargetDevice(ip, mac) == [ip |-> ip, mac |-> mac, active |-> TRUE]

HasTarget(ts, ip) == \E i \in 1..Len(ts) : ts[i].ip = ip
TargetOf(ts, ip)  == ts[CHOOSE i \in 1..Len(ts) : ts[i].ip = ip]
TargetKeys(ts)    == {ts[i].ip : i \in 1..Len(ts)}

\* dict assignment: an existing key keeps its position, a new key is appended
DictPut(ts, ip, t) ==
    IF HasTarget(ts, ip)
    THEN [i \in 1..Len(ts) |-> IF ts[i].ip = ip THEN t ELSE ts[i]]
    ELSE Append(ts, t)

\* del self.targets[ip]
DictDel(ts, ip) == SelectSeq(ts, LAMBDA t : t.ip # ip)

\* _get_mac: the stored address of a known target, else the ARP lookup's answer
GetMac(ts, ip, lookup) ==
    IF HasTarget(ts, ip) /\ TargetOf(ts, ip).mac # None
    THEN TargetOf(ts, ip).mac
    ELSE lookup

\* An ARP reply (op=2) as built by Ether(dst)/ARP(pdst, hwdst, psrc, hwsrc)
Frame(dst, pdst, psrc, hwsrc) ==
    [dst |-> dst, pdst |-> pdst, psrc |-> psrc, hwsrc |-> hwsrc]

\* _spoof_target: "gateway_ip is at our_mac", to the target
SpoofTargetFrame(tip, tmac) == Frame(tmac, tip, gateway_ip, OurMac)
\* _spoof_gateway: "target_ip is at our_mac", to the gateway
SpoofGatewayFrame(tip, tmac) == Frame(gateway_mac, gateway_ip, tip, OurMac)
\* _restore_target, first packet: "gateway_ip is at gateway_mac", to the target
RestoreTargetFrame(tip, tmac) == Frame(tmac, tip, gateway_ip, gateway_mac)
\* (variant: the second packet repeats the first packet's hwsrc)
RestoreGatewayFrame_GatewayMac(tip, tmac) == Frame(gateway_mac, gateway_ip, tip, gateway_mac)
\* _restore_target, second packet: "target_ip is at target_mac", to the gateway
RestoreGatewayFrame(tip, tmac) == Frame(gateway_mac, gateway_ip, tip, tmac)

RestoreCount == 3        \* sendp(..., count=3)

Repeat(f, n) == [i \in 1..n |-> f]

\* A frame that poisons: it binds an IP address to the monitor's own address.
IsPoison(f) == f.hwsrc = OurMac
PoisonedIP(f) == IF f.pdst \in TargetIPs THEN f.pdst ELSE f.psrc

\* A frame that tells target tip the true mapping of the gateway.
IsTrueRestoreToTarget(f, tip) ==
    /\ f.pdst = tip /\ SameMac(f.dst, TrueMac(tip))
    /\ f.psrc = GatewayIP /\ SameMac(f.hwsrc, TrueMac(GatewayIP))
\* A frame that tells the gateway the true mapping of target tip.
IsTrueRestoreToGateway(f, tip) ==
    /\ f.pdst = GatewayIP /\ SameMac(f.dst, TrueMac(GatewayIP))
    /\ f.psrc = tip /\ SameMac(f.hwsrc, TrueMac(tip))

CountTrue(fs, P(_)) == Cardinality({i \in 1..Len(fs) : P(fs[i])})

NoThread == [pc |-> "unborn", snap |-> <<>>]
Idle     == [pc |-> "idle", ip |-> None, todo |-> <<>>]
ZeroLog  == [ip \in TargetIPs |-> [t |-> 0, g |-> 0]]

ArpInit ==
    /\ targets = <<>>
    /\ gateway_ip \in {None, GatewayIP}
    /\ gateway_mac = None
    /\ running = FALSE
    /\ spoof_thread = 0
    /\ threads = [i \in 1..MaxThreads |-> NoThread]
    /\ ctl = Idle
    /\ wire = <<>>
    /\ restoreLog = ZeroLog
    /\ removedRestored = {}
    /\ stopRestoring = FALSE
    /\ lastStart = "none"
    /\ everStartOk = FALSE
    /\ callback = <<>>
    /\ failures = [ip \in TargetIPs |-> 0]

ghostSame == UNCHANGED <<restoreLog, removedRestored, stopRestoring,
                         lastStart, everStartOk>>

\* an event as self.callback receives it: its type and the target it is about
Event(type, ip) == [type |-> type, ip |-> ip]

(***************************************************************************)
(* ARPGateway.add_target                                                   *)
(***************************************************************************)
\* (variant: a target whose address was not resolved is kept, without address)
AddTarget_KeepsUnresolved(ip, lookup) ==
    /\ ctl.pc = "idle"
    /\ LET mac == GetMac(targets, ip, lookup) IN
       IF mac = None
       THEN /\ targets' = DictPut(targets, ip, TargetDevice(ip, None))
            /\ callback' = <<Event("error", ip)>>
            /\ UNCHANGED removedRestored
       ELSE /\ targets' = DictPut(targets, ip, TargetDevice(ip, MacUpper(mac)))
            /\ callback' = <<Event("target_added", ip)>>
            /\ removedRestored' = removedRestored \ {ip}
    /\ wire' = <<>>
    /\ UNCHANGED <<gateway_ip, gateway_mac, running, spoof_thread, threads, ctl,
                   restoreLog, stopRestoring, lastStart, everStartOk, failures>>
    /\ UNCHANGED notArp

AddTarget(ip, lookup) ==
    /\ ctl.pc = "idle"
    /\ LET mac == GetMac(targets, ip, lookup) IN
       IF mac = None
       THEN /\ callback' = <<Event("error", ip)>>
            /\ UNCHANGED <<targets, removedRestored>>
       ELSE /\ targets' = DictPut(targets, ip, TargetDevice(ip, MacUpper(mac)))
            /\ callback' = <<Event("target_added", ip)>>
            /\ removedRestored' = removedRestored \ {ip}
    /\ wire' = <<>>
    /\ UNCHANGED <<gateway_ip, gateway_mac, running, spoof_thread, threads, ctl,
                   restoreLog, stopRestoring, lastStart, everStartOk, failures>>
    /\ UNCHANGED notArp

(***************************************************************************)
(* ARPGateway.remove_target: _restore_target (two sendp calls), then del   *)
(***************************************************************************)
LogRestore(log, ip, frames) ==
    [log EXCEPT
       ![ip].t = @ + CountTrue(frames, LAMBDA f : IsTrueRestoreToTarget(f, ip)),
       ![ip].g = @ + CountTrue(frames, LAMBDA f : IsTrueRestoreToGateway(f, ip))]

\* what a sendp() call can do: send (TRUE) or raise (FALSE)
SendOutcomes == IF sendp_raises THEN BOOLEAN ELSE {TRUE}

\* if ip in self.targets: the first sendp of _restore_target; when it raises the
\* exception leaves remove_target and the target stays
RemoveTarget(ip, sent) ==
    /\ ctl.pc = "idle"
    /\ sent \in SendOutcomes
    /\ IF HasTarget(targets, ip)
       THEN LET t == TargetOf(targets, ip)
                frames == Repeat(RestoreTargetFrame(ip, t.mac), RestoreCount) IN
            IF sent
            THEN /\ wire' = frames
                 /\ restoreLog' = LogRestore(ZeroLog, ip, frames)
                 /\ ctl' = [pc |-> "remove_restore_gateway", ip |-> ip, todo |-> <<t>>]
            ELSE /\ wire' = <<>>
                 /\ UNCHANGED <<restoreLog, ctl>>
       ELSE /\ sent
            /\ wire' = <<>>
            /\ UNCHANGED <<restoreLog, ctl>>
    /\ callback' = <<>>
    /\ UNCHANGED <<targets, gateway_ip, gateway_mac, running, spoof_thread, threads,
                   removedRestored, stopRestoring, lastStart, everStartOk, failures>>
    /\ UNCHANGED notArp

\* the second sendp of _restore_target; when it raises the exception leaves
\* remove_target before the del and the event
RemoveRestoreGateway(sent) ==
    /\ ctl.pc = "remove_restore_gateway"
    /\ sent \in SendOutcomes
    /\ LET t == Head(ctl.todo)
           frames == Repeat(RestoreGatewayFrame(t.ip, t.mac), RestoreCount) IN
       IF sent
       THEN /\ wire' = frames
            /\ restoreLog' = LogRestore(restoreLog, t.ip, frames)
            /\ removedRestored' = removedRestored \cup {t.ip}
            /\ ctl' = [ctl EXCEPT !.pc = "remove_del"]
       ELSE /\ wire' = <<>>
            /\ restoreLog' = ZeroLog
            /\ UNCHANGED removedRestored
            /\ ctl' = Idle
    /\ callback' = <<>>
    /\ UNCHANGED <<targets, gateway_ip, gateway_mac, running, spoof_thread, threads,
                   stopRestoring, lastStart, everStartOk, failures>>
    /\ UNCHANGED notArp

RemoveDel ==
    /\ ctl.pc = "remove_del"
    /\ targets' = DictDel(targets, ctl.ip)
    /\ ctl' = Idle
    /\ wire' = <<>>
    /\ restoreLog' = ZeroLog
    /\ callback' = <<Event("target_removed", ctl.ip)>>
    /\ UNCHANGED <<gateway_ip, gateway_mac, running, spoof_thread, threads,
                   removedRestored, stopRestoring, lastStart, everStartOk, failures>>
    /\ UNCHANGED notArp

(***************************************************************************)
(* ARPGateway._get_gateway and ARPGateway.start                            *)
(***************************************************************************)
\* _get_gateway: the configured address, else what the ipconfig scan found
GetGateway(detected) == IF gateway_ip # None THEN gateway_ip ELSE detected

ThreadsCreated == Cardinality({i \in 1..MaxThreads : threads[i].pc # "unborn"})

\* the number of _spoof_loop threads explored
ThreadLimit == IF sendp_raises THEN MaxFlakyThreads ELSE MaxThreads

\* ip_forwarding.enable_ip_forwarding: the registry value is written as 1 and the
\* interface is set to forwarding=enabled; the value found there is not read
enable_ip_forwarding == ip_forward' = TRUE

\* ip_forwarding.disable_ip_forwarding: the registry value is written as 0 and the
\* interface is set to forwarding=disabled, whatever start() found
disable_ip_forwarding == ip_forward' = FALSE

\* the two early "return False" exits of start(): the error event goes to the
\* callback; nothing else of the engine is touched, whatever state it is in
StartFailed ==
    /\ lastStart' = "failed"
    /\ callback' = <<Event("error", None)>>
    /\ UNCHANGED <<running, spoof_thread, threads, stopRestoring, everStartOk>>

\* self.gateway_ip = self._get_gateway()
Start(detected) ==
    /\ ctl.pc = "idle"
    /\ gateway_ip' = GetGateway(detected)
    /\ IF gateway_ip' = None
       THEN StartFailed /\ UNCHANGED ctl
       ELSE /\ ctl' = [pc |-> "start_get_mac", ip |-> None, todo |-> <<>>]
            /\ callback' = <<>>
            /\ UNCHANGED <<running, spoof_thread, threads, stopRestoring, lastStart,
                           everStartOk>>
    /\ wire' = <<>>
    /\ UNCHANGED <<targets, gateway_mac, restoreLog, removedRestored, failures>>
    /\ UNCHANGED notArp

\* self.gateway_mac = self._get_mac(self.gateway_ip)
StartGetMac(lookup) ==
    /\ ctl.pc = "start_get_mac"
    /\ gateway_mac' = GetMac(targets, gateway_ip, lookup)
    /\ IF gateway_mac' = None
       THEN StartFailed /\ ctl' = Idle
       ELSE /\ ThreadsCreated < ThreadLimit
            /\ ctl' = [ctl EXCEPT !.pc = "start_forwarding"]
            /\ callback' = <<>>
            /\ UNCHANGED <<running, spoof_thread, threads, stopRestoring, lastStart,
                           everStartOk>>
    /\ wire' = <<>>
    /\ UNCHANGED <<targets, gateway_ip, restoreLog, removedRestored, failures>>
    /\ UNCHANGED notArp

\* enable_ip_forwarding(self.interface)
StartEnableForwarding ==
    /\ ctl.pc = "start_forwarding"
    /\ forwardBefore' = IF everStartOk THEN forwardBefore ELSE ip_forward
    /\ enable_ip_forwarding
    /\ ctl' = [ctl EXCEPT !.pc = "start_thread"]
    /\ wire' = <<>>
    /\ callback' = <<>>
    /\ UNCHANGED <<targets, gateway_ip, gateway_mac, running, spoof_thread, threads,
                   failures>>
    /\ ghostSame
    /\ UNCHANGED notArpOs

\* self.running = True; the spoofing thread is created and started: from here on
\* the new thread runs beside the rest of start()
StartThread ==
    /\ ctl.pc = "start_thread"
    /\ running' = TRUE
    /\ spoof_thread' = ThreadsCreated + 1
    /\ threads' = [threads EXCEPT ![ThreadsCreated + 1] =
                      [pc |-> "while", snap |-> <<>>]]
    /\ everStartOk' = TRUE
    /\ stopRestoring' = FALSE
    /\ callback' = <<>>
    /\ ctl' = [ctl EXCEPT !.pc = "start_return"]
    /\ wire' = <<>>
    /\ UNCHANGED <<targets, gateway_ip, gateway_mac, restoreLog, removedRestored,
                   lastStart, failures>>
    /\ UNCHANGED notArp

\* self.callback({"type": "started", ...}); return True
StartReturn ==
    /\ ctl.pc = "start_return"
    /\ lastStart' = "ok"
    /\ callback' = <<Event("started", None)>>
    /\ ctl' = Idle
    /\ wire' = <<>>
    /\ UNCHANGED <<targets, gateway_ip, gateway_mac, running, spoof_thread, threads,
                   restoreLog, removedRestored, stopRestoring, everStartOk, failures>>
    /\ UNCHANGED notArp

(***************************************************************************)
(* ARPGateway._spoof_loop, one thread per successful start()               *)
(***************************************************************************)
threadSame == UNCHANGED <<targets, gateway_ip, gateway_mac, running, spoof_thread,
                          ctl>>

NextPc(rest) == IF rest = <<>> THEN "sleep" ELSE "spoof_target"

\* except Exception as e: self.callback({"type": "spoof_error", "ip": ip, ...}),
\* and the for loop goes on to the next target
SpoofFailed(i) ==
    LET t == Head(threads[i].snap) IN
    /\ failures[t.ip] < MaxFailures
    /\ failures' = [failures EXCEPT ![t.ip] = @ + 1]
    /\ callback' = <<Event("spoof_error", t.ip)>>
    /\ wire' = <<>>
    /\ threads' = [threads EXCEPT
                     ![i] = [pc |-> NextPc(Tail(threads[i].snap)),
                             snap |-> Tail(threads[i].snap)]]

\* while self.running: for ip, target in list(self.targets.items()):
LoopWhile(i) ==
    /\ threads[i].pc = "while"
    /\ threads' = [threads EXCEPT ![i] =
                      IF running THEN [pc |-> NextPc(targets), snap |-> targets]
                                 ELSE [pc |-> "done", snap |-> <<>>]]
    /\ wire' = <<>>
    /\ callback' = <<>>
    /\ threadSame /\ ghostSame
    /\ UNCHANGED failures
    /\ UNCHANGED notArp

\* if target.active: self._spoof_target(ip, target.mac)
LoopSpoofTarget(i, sent) ==
    /\ threads[i].pc = "spoof_target"
    /\ sent \in SendOutcomes
    /\ LET t == Head(threads[i].snap) IN
       IF t.active
       THEN IF sent
            THEN /\ wire' = <<SpoofTargetFrame(t.ip, t.mac)>>
                 /\ threads' = [threads EXCEPT ![i].pc = "spoof_gateway"]
                 /\ callback' = <<>>
                 /\ UNCHANGED failures
            ELSE SpoofFailed(i)
       ELSE /\ sent
            /\ wire' = <<>>
            /\ threads' = [threads EXCEPT
                             ![i] = [pc |-> NextPc(Tail(threads[i].snap)),
                                     snap |-> Tail(threads[i].snap)]]
            /\ callback' = <<>>
            /\ UNCHANGED failures
    /\ threadSame /\ ghostSame
    /\ UNCHANGED notArp

\* self._spoof_gateway(ip, target.mac)
LoopSpoofGateway(i, sent) ==
    /\ threads[i].pc = "spoof_gateway"
    /\ sent \in SendOutcomes
    /\ LET t == Head(threads[i].snap) IN
       IF sent
       THEN /\ wire' = <<SpoofGatewayFrame(t.ip, t.mac)>>
            /\ threads' = [threads EXCEPT
                             ![i] = [pc |-> NextPc(Tail(threads[i].snap)),
                                     snap |-> Tail(threads[i].snap)]]
            /\ callback' = <<>>
            /\ failures' = [failures EXCEPT ![t.ip] = 0]
       ELSE SpoofFailed(i)
    /\ threadSame /\ ghostSame
    /\ UNCHANGED notArp

\* time.sleep(self.spoof_interval)
LoopSleep(i) ==
    /\ threads[i].pc = "sleep"
    /\ threads' = [threads EXCEPT ![i].pc = "while"]
    /\ wire' = <<>>
    /\ callback' = <<>>
    /\ UNCHANGED failures
    /\ threadSame /\ ghostSame
    /\ UNCHANGED notArp

(***************************************************************************)
(* ARPGateway.stop                                                         *)
(***************************************************************************)
\* self.running = False
StopBegin ==
    /\ ctl.pc = "idle"
    /\ running' = FALSE
    /\ ctl' = [pc |-> "stop_join", ip |-> None, todo |-> <<>>]
    /\ restoreLog' = ZeroLog
    /\ wire' = <<>>
    /\ callback' = <<>>
    /\ UNCHANGED <<targets, gateway_ip, gateway_mac, spoof_thread, threads,
                   removedRestored, stopRestoring, lastStart, everStartOk, failures>>
    /\ UNCHANGED notArp

StopPc(todo) == IF todo = <<>> THEN "stop_finish" ELSE "stop_restore_target"

AfterJoin ==
    /\ ctl' = [pc |-> StopPc(targets), ip |-> None, todo |-> targets]
    /\ wire' = <<>>
    /\ callback' = <<>>
    /\ UNCHANGED <<targets, gateway_ip, gateway_mac, running, spoof_thread, threads,
                   failures>>
    /\ ghostSame

\* self.spoof_thread.join(timeout=...) returns because the thread has ended
\* (or there is no thread to join)
StopJoinDone ==
    /\ ctl.pc = "stop_join"
    /\ IF spoof_thread = 0 THEN TRUE ELSE threads[spoof_thread].pc = "done"
    /\ AfterJoin
    /\ UNCHANGED notArp

\* self.spoof_thread.join(timeout=self.spoof_interval + 1) returns on the timeout
StopJoinTimeout ==
    /\ ctl.pc = "stop_join"
    /\ IF spoof_thread = 0 THEN FALSE ELSE threads[spoof_thread].pc # "done"
    /\ AfterJoin
    /\ UNCHANGED notArp

\* for ip, target in self.targets.items(): self._restore_target(ip, target.mac)
\* the first sendp of _restore_target; except Exception: pass goes on to the
\* next target
StopRestoreTarget(sent) ==
    /\ ctl.pc = "stop_restore_target"
    /\ sent \in SendOutcomes
    /\ LET t == Head(ctl.todo)
           frames == Repeat(RestoreTargetFrame(t.ip, t.mac), RestoreCount) IN
       IF sent
       THEN /\ wire' = frames
            /\ restoreLog' = LogRestore(restoreLog, t.ip, frames)
            /\ stopRestoring' = TRUE
            /\ ctl' = [ctl EXCEPT !.pc = "stop_restore_gateway"]
       ELSE /\ wire' = <<>>
            /\ UNCHANGED <<restoreLog, stopRestoring>>
            /\ ctl' = [ctl EXCEPT !.pc = StopPc(Tail(ctl.todo)), !.todo = Tail(ctl.todo)]
    /\ callback' = <<>>
    /\ UNCHANGED <<targets, gateway_ip, gateway_mac, running, spoof_thread, threads,
                   removedRestored, lastStart, everStartOk, failures>>
    /\ UNCHANGED notArp

\* the second sendp of _restore_target; when it raises, except Exception: pass
StopRestoreGateway(sent) ==
    /\ ctl.pc = "stop_restore_gateway"
    /\ sent \in SendOutcomes
    /\ LET t == Head(ctl.todo)
           frames == Repeat(RestoreGatewayFrame(t.ip, t.mac), RestoreCount) IN
       IF sent
       THEN /\ wire' = frames
            /\ restoreLog' = LogRestore(restoreLog, t.ip, frames)
       ELSE /\ wire' = <<>>
            /\ UNCHANGED restoreLog
    /\ ctl' = [ctl EXCEPT !.pc = StopPc(Tail(ctl.todo)), !.todo = Tail(ctl.todo)]
    /\ UNCHANGED <<targets, gateway_ip, gateway_mac, running, spoof_thread, threads,
                   removedRestored, stopRestoring, lastStart,
                   everStartOk, failures>>
    /\ callback' = <<>>
    /\ UNCHANGED notArp

\* disable_ip_forwarding(self.interface), after the restore loop
StopDisableForwarding ==
    /\ ctl.pc = "stop_finish"
    /\ disable_ip_forwarding
    /\ ctl' = [ctl EXCEPT !.pc = "stop_callback"]
    /\ wire' = <<>>
    /\ callback' = <<>>
    /\ UNCHANGED <<targets, gateway_ip, gateway_mac, running, spoof_thread, threads,
                   failures>>
    /\ ghostSame
    /\ UNCHANGED <<forwardBefore, notArpOs>>

\* self.callback({"type": "stopped", ...}); stop() returns
StopFinish ==
    /\ ctl.pc = "stop_callback"
    /\ ctl' = Idle
    /\ wire' = <<>>
    /\ restoreLog' = ZeroLog
    /\ callback' = <<Event("stopped", None)>>
    /\ UNCHANGED <<targets, gateway_ip, gateway_mac, running, spoof_thread, threads,
                   removedRestored, stopRestoring, lastStart, everStartOk, failures>>
    /\ UNCHANGED notArp

(***************************************************************************)
(* ARPGateway.__init__ and ARPGateway.set_quiet_mode                       *)
(***************************************************************************)
DefaultInterval == 15    \* spoof_interval: int = 15, and interval: int = 15
AggressiveInterval == 2  \* ... if quiet_mode else 2

\* the interval values callers pass
IntervalArgs == {5, DefaultInterval, 30}

\* self.spoof_interval = spoof_interval if quiet_mode else 2
IntervalFor(enabled, interval) == IF enabled THEN interval ELSE AggressiveInterval

\* __init__(interface, quiet_mode=..., spoof_interval=...)
QuietInit ==
    /\ quiet_mode \in BOOLEAN
    /\ \E interval \in IntervalArgs : spoof_interval = IntervalFor(quiet_mode, interval)
    /\ sendp_raises \in BOOLEAN

\* set_quiet_mode(enabled, interval)
SetQuietMode(enabled, interval) ==
    /\ ctl.pc = "idle"
    /\ quiet_mode' = enabled
    /\ spoof_interval' = IntervalFor(enabled, interval)
    /\ callback' = <<Event("config_changed", None)>>
    /\ wire' = <<>>
    /\ UNCHANGED <<targets, gateway_ip, gateway_mac, running, spoof_thread, threads, ctl,
                   failures>>
    /\ ghostSame
    /\ UNCHANGED <<sendp_raises, osVars, notEngine>>

ArpNext ==
    \/ \E ip \in TargetIPs, lookup \in {TRUE, FALSE} :
          AddTarget(ip, IF lookup THEN TrueMac(ip) ELSE None)
    \/ \E ip \in TargetIPs, sent \in BOOLEAN : RemoveTarget(ip, sent)
    \/ \E sent \in BOOLEAN : RemoveRestoreGateway(sent)
    \/ RemoveDel
    \/ \E detected \in {None, GatewayIP} : Start(detected)
    \/ \E lookup \in {None, TrueMac(GatewayIP)} : StartGetMac(lookup)
    \/ StartEnableForwarding
    \/ StartThread
    \/ StartReturn
    \/ StopBegin
    \/ StopJoinDone
    \/ StopJoinTimeout
    \/ \E sent \in BOOLEAN : StopRestoreTarget(sent)
    \/ \E sent \in BOOLEAN : StopRestoreGateway(sent)
    \/ StopDisableForwarding
    \/ StopFinish
    \/ \E i \in 1..MaxThreads : LoopWhile(i)
    \/ \E i \in 1..MaxThreads, sent \in BOOLEAN : LoopSpoofTarget(i, sent)
    \/ \E i \in 1..MaxThreads, sent \in BOOLEAN : LoopSpoofGateway(i, sent)
    \/ \E i \in 1..MaxThreads : LoopSleep(i)


(***************************************************************************)
(* Properties of the ARP engine                                            *)
(***************************************************************************)
Restored(ip) == restoreLog[ip].t >= RestoreCount /\ restoreLog[ip].g >= RestoreCount

\* C1: when stop() is called on a started engine (its most recent start()
\* succeeded), then by the time stop() returns it has sent, for every target in
\* the target set, at least three replies to the target giving the gateway IP at
\* the true gateway MAC and at least three to the gateway giving the target IP
\* at the true target MAC.
C1_StopRestoresEveryTarget ==
    (ctl.pc = "stop_finish" /\ lastStart = "ok")
        => \A ip \in TargetKeys(targets) : Restored(ip)

C1_Witness ==
    /\ ctl.pc = "stop_finish" /\ lastStart = "ok"
    /\ TargetKeys(targets) = TargetIPs
    /\ \A ip \in TargetIPs : Restored(ip)

\* C2: once remove_target(ip) has sent its restorative frames, no poison frame
\* for ip is sent any more unless ip is added again.
C2_NoPoisonAfterRemoveRestore ==
    \A k \in 1..Len(wire) :
        IsPoison(wire[k]) => PoisonedIP(wire[k]) \notin removedRestored

\* C3: once stop() has started sending restorative frames, no poison frame is
\* sent for any target (until a later start()).
C3_NoPoisonAfterStopRestore ==
    \A k \in 1..Len(wire) : IsPoison(wire[k]) => ~stopRestoring

\* the most recent start() that got as far as the MAC lookup found no MAC for
\* the gateway, and returned False
GatewayMacUnresolved ==
    lastStart = "failed" /\ gateway_ip # None /\ gateway_mac = None

\* C4: a start() that cannot resolve the gateway's MAC address, in whatever
\* state the engine is, reports failure (it returns False and passes an error
\* to the callback) and leaves the engine not running and without a poisoning
\* thread that is alive; from then on, until a later start() resolves the
\* gateway, no poison frame is sent.
C4_FailedStartNoPoisoning ==
    [][/\ \A lookup \in {None, TrueMac(GatewayIP)} :
             (StartGetMac(lookup) /\ gateway_mac' = None) =>
                 /\ lastStart' = "failed"
                 /\ callback' = <<Event("error", None)>>
                 /\ ~running'
                 /\ \A i \in 1..MaxThreads : threads'[i].pc \in {"unborn", "done"}
       /\ GatewayMacUnresolved =>
             \A k \in 1..Len(wire') : ~IsPoison(wire'[k])]_vars

\* C5: remove_target(ip) has sent, by the time it deletes the record, at least
\* three replies to the target giving the gateway IP at the gateway's true MAC
\* and at least three to the gateway giving the target IP at the target's true
\* MAC, in every engine state (also for a target added before start()).
C5_RemoveRestoresTrueMappings ==
    ctl.pc = "remove_del" => Restored(ctl.ip)

\* what an add_target(ip) step must do, given what the ARP lookup answers
AddTargetOutcome(ip, lookup) ==
    IF GetMac(targets, ip, lookup) # None
    THEN /\ HasTarget(targets', ip)
         /\ TargetOf(targets', ip).active
         /\ callback' = <<Event("target_added", ip)>>
    ELSE /\ targets' = targets
         /\ callback' = <<Event("error", ip)>>

\* C23: add_target(ip) adds ip to the target set as an active target if and only
\* if its link-layer address is resolved; when resolution fails it reports an
\* error and leaves the target set exactly as it was.
C23_AddTargetIffResolved ==
    [][\A ip \in TargetIPs : \A lookup \in {None, TrueMac(ip)} :
          AddTarget(ip, lookup) => AddTargetOutcome(ip, lookup)]_vars

\* C23 witness: an add_target whose lookup failed has reported the error while
\* the other target is held and the engine runs
C23_Witness ==
    \E ip \in TargetIPs :
        /\ callback = <<Event("error", ip)>>
        /\ ~HasTarget(targets, ip)
        /\ targets # <<>>
        /\ running

\* the _spoof_loop threads that were started and have not returned
AliveThreads == {i \in 1..MaxThreads : threads[i].pc \notin {"unborn", "done"}}

\* C32: at any time at most one poisoning thread of the engine is alive, whatever
\* start() and stop() calls were made, start() twice and start() soon after
\* stop() included
C32_OnePoisoningThread == Cardinality(AliveThreads) <= 1

\* thread i is inside the for loop of _spoof_loop, working through the targets
InIteration(i) == threads[i].pc \in {"spoof_target", "spoof_gateway"}

\* the command thread is inside remove_target, between finding the target and
\* deleting it, or inside the restore loop of stop()
CommandInTargets ==
    ctl.pc \in {"remove_restore_gateway", "remove_del",
                "stop_restore_target", "stop_restore_gateway"}

\* C33: the accesses to the target set exclude each other: a poisoning thread
\* is never inside its iteration while the command thread is inside
\* remove_target or the restore loop of stop(), and the set is not modified
\* while a poisoning thread is inside its iteration
C33_TargetSetExclusive ==
    /\ [](\A i \in 1..MaxThreads : ~(InIteration(i) /\ CommandInTargets))
    /\ [][(\E i \in 1..MaxThreads : InIteration(i)) => targets' = targets]_vars

\* C24: in every reachable state the poisoning interval is 2 s when quiet mode is
\* off and at least 15 s when it is on, whatever interval values were passed to
\* the constructor or to set_quiet_mode.
C24_IntervalFollowsMode ==
    IF quiet_mode THEN spoof_interval >= DefaultInterval
    ELSE spoof_interval = AggressiveInterval

\* C25: send failures are counted per target: a spoof_error event is emitted for
\* a target when its count of consecutive send failures reaches three, and a
\* failing target is never deactivated or removed by the engine.
C25_SpoofErrorAtThirdFailure ==
    /\ \A ip \in TargetIPs :
          callback = <<Event("spoof_error", ip)>> => failures[ip] = 3
    /\ \A i \in 1..Len(targets) : targets[i].active

(***************************************************************************)
(* Strings are sequences of one-character strings, so that str.lower,      *)
(* str.strip, str.endswith and the "in" operator are computed on           *)
(* characters as Python computes them.                                     *)
(***************************************************************************)
UpperLetters == <<"A","B","C","D","E","F","G","H","I","J","K","L","M",
                  "N","O","P","Q","R","S","T","U","V","W","X","Y","Z">>
LowerLetters == <<"a","b","c","d","e","f","g","h","i","j","k","l","m",
                  "n","o","p","q","r","s","t","u","v","w","x","y","z">>

\* the lower-case letter of each upper-case letter
LowerOf ==
    [c \in {UpperLetters[i] : i \in 1..Len(UpperLetters)} |->
        LowerLetters[CHOOSE i \in 1..Len(UpperLetters) : UpperLetters[i] = c]]

LowerChar(c) == IF c \in DOMAIN LowerOf THEN LowerOf[c] ELSE c

\* str.lower()
StrLower(s) == [i \in 1..Len(s) |-> LowerChar(s[i])]

Whitespace == {" ", "\t", "\n", "\r"}

RECURSIVE LStrip(_)
LStrip(s) == IF s # <<>> /\ Head(s) \in Whitespace THEN LStrip(Tail(s)) ELSE s

RECURSIVE RStrip(_)
RStrip(s) ==
    IF s # <<>> /\ s[Len(s)] \in Whitespace THEN RStrip(SubSeq(s, 1, Len(s) - 1)) ELSE s

\* str.strip()
StrStrip(s) == RStrip(LStrip(s))

\* s.endswith(suffix)
StrEndsWith(s, suffix) ==
    /\ Len(suffix) <= Len(s)
    /\ SubSeq(s, Len(s) - Len(suffix) + 1, Len(s)) = suffix

\* needle in hay
StrContains(hay, needle) ==
    \E i \in 0..(Len(hay) - Len(needle)) : SubSeq(hay, i + 1, i + Len(needle)) = needle

\* domain == entry or domain.endswith('.' + entry)
DomainMatches(domain, entry) ==
    domain = entry \/ StrEndsWith(domain, <<".">> \o entry)

\* The strings used as inputs and table entries.
Str_Empty == <<>>    \* ''
Str_EA_com_sp == <<"E", "A", ".", "c", "o", "m", " ">>    \* 'EA.com '
Str_ea_com == <<"e", "a", ".", "c", "o", "m">>    \* 'ea.com'
Str_steampowered_com == <<"s", "t", "e", "a", "m", "p", "o", "w", "e", "r", "e", "d", ".", "c", "o", "m">>    \* 'steampowered.com'
Str_a_ea_com == <<"a", ".", "e", "a", ".", "c", "o", "m">>    \* 'a.ea.com'
Str_nea_com == <<"n", "e", "a", ".", "c", "o", "m">>    \* 'nea.com'
Str_b_io == <<"b", ".", "i", "o">>    \* 'b.io'
Str_cam4_com == <<"c", "a", "m", "4", ".", "c", "o", "m">>    \* 'cam4.com'
Str_EA_com == <<"E", "A", ".", "c", "o", "m">>    \* 'EA.com'
Str_url_EA_xxx == <<"E", "A", ".", "c", "o", "m", "/", "x", "x", "x">>    \* 'EA.com/xxx'
Str_xxx == <<"x", "x", "x">>    \* 'xxx'
Str_XXX == <<"X", "X", "X">>    \* 'XXX'
Str_ab == <<"a", "b">>    \* 'ab'
Str_Ab == <<"A", "b">>    \* 'Ab'
Str_pat_X == <<"/", "X">>    \* '/X'
Str_pat_bad == <<"(">>    \* '('
Str_adult == <<"a", "d", "u", "l", "t">>    \* 'adult'
Str_gaming == <<"g", "a", "m", "i", "n", "g">>    \* 'gaming'
Str_ADULT == <<"A", "D", "U", "L", "T">>    \* 'ADULT'
Str_bogus == <<"b", "o", "g", "u", "s">>    \* 'bogus'
Str_space == <<" ">>    \* ' '
Str_url_b_ea == <<"b", ".", "i", "o", "/", "e", "a", ".", "c", "o", "m">>    \* 'b.io/ea.com'
Str_url_b == <<"b", ".", "i", "o", "/">>    \* 'b.io/'
Str_Gaming == <<"G", "a", "m", "i", "n", "g">>    \* 'Gaming'
Str_other == <<"o", "t", "h", "e", "r">>    \* 'other'

(***************************************************************************)
(* categories.py: BlockCategory, CATEGORY_DEFINITIONS restricted to two    *)
(* categories and to the entries the inputs below can match.               *)
(***************************************************************************)
\* BlockCategory values, in the order of CATEGORY_DEFINITIONS
CategoryOrder == <<Str_adult, Str_gaming>>
CategoryValues == {CategoryOrder[i] : i \in 1..Len(CategoryOrder)}

CategoryDomains(c) ==
    CASE c = Str_adult  -> {Str_cam4_com}
      [] c = Str_gaming -> {Str_steampowered_com, Str_ea_com}
      [] OTHER -> {}

CategoryKeywords(c) ==
    CASE c = Str_adult  -> <<Str_xxx>>
      [] OTHER -> <<>>

NoCategory == <<>>       \* no category (None); also stands for get_category's ValueError

\* get_category: the enum member whose value (or name) is category.lower()
GetCategory(category) ==
    IF StrLower(category) \in CategoryValues THEN StrLower(category) ELSE NoCategory

\* check_domain_category: the categories, in table order, one of whose domains
\* the domain equals or is a subdomain of
CheckDomainCategory(domain) ==
    SelectSeq(CategoryOrder,
              LAMBDA c : \E b \in CategoryDomains(c) : DomainMatches(StrLower(domain), b))

\* check_url_keywords: the categories, in table order, one of whose keywords
\* occurs in (url + " " + content).lower()
CheckUrlKeywords(url, content) ==
    LET combined == StrLower(url \o Str_space \o content) IN
    SelectSeq(CategoryOrder,
              LAMBDA c : \E i \in 1..Len(CategoryKeywords(c)) :
                            StrContains(combined, StrLower(CategoryKeywords(c)[i])))

(***************************************************************************)
(* schedules.py: TimeRange, Schedule, ScheduleManager                      *)
(***************************************************************************)
\* datetime.now(): ordinal date, weekday (Monday = 0) and seconds since midnight
Instants == <<
    [date |-> 0, weekday |-> 0, secs |-> 17 * 3600],           \* Monday 17:00:00
    [date |-> 0, weekday |-> 0, secs |-> 18 * 3600 + 60] >>    \* Monday 18:01:00

Now == Instants[clock]

TimeRange(sh, sm, eh, em) ==
    [start_hour |-> sh, start_minute |-> sm, end_hour |-> eh, end_minute |-> em]

\* (variant: the end of the range is not looked at)
TimeRangeContains_FromStartOn(r, secs) ==
    r.start_hour * 3600 + r.start_minute * 60 <= secs

\* TimeRange.contains
TimeRangeContains(r, secs) ==
    LET start == r.start_hour * 3600 + r.start_minute * 60
        end   == r.end_hour * 3600 + r.end_minute * 60 IN
    IF start <= end
    THEN start <= secs /\ secs <= end
    ELSE secs >= start \/ secs <= end

\* self.time_ranges.get(day, [])
DayRanges(sch, day) ==
    IF day \in DOMAIN sch.time_ranges THEN sch.time_ranges[day] ELSE <<>>

InAnyRange(rs, secs) == \E i \in 1..Len(rs) : TimeRangeContains(rs[i], secs)

NoDate == -1             \* start_date / end_date is None

\* Schedule.is_active_now
IsActiveNow(sch, t) ==
    IF ~sch.enabled THEN FALSE
    ELSE IF sch.start_date # NoDate /\ t.date < sch.start_date THEN FALSE
    ELSE IF sch.end_date # NoDate /\ t.date > sch.end_date THEN FALSE
    ELSE IF sch.schedule_type = "always_block" THEN TRUE
    ELSE IF sch.schedule_type = "never_block" THEN FALSE
    ELSE IF sch.schedule_type = "time_range"
         THEN InAnyRange(DayRanges(sch, t.weekday), t.secs)
    ELSE IF sch.schedule_type = "allow_range"
         THEN ~InAnyRange(DayRanges(sch, t.weekday), t.secs)
    ELSE FALSE

\* Schedule.should_block; an argument left out is the empty string
ScheduleShouldBlock(sch, t, domain, category) ==
    IF ~IsActiveNow(sch, t) THEN FALSE
    ELSE IF domain # Str_Empty
            /\ \E b \in sch.domains : DomainMatches(StrLower(domain), b) THEN TRUE
    ELSE IF category # Str_Empty
            /\ StrLower(category) \in {StrLower(c) : c \in sch.categories} THEN TRUE
    ELSE sch.domains = {} /\ sch.categories = {}

\* sorted(..., key=priority, reverse=True): descending, equal keys keep their order
RECURSIVE InsertByPriority(_, _)
InsertByPriority(sorted, x) ==
    IF sorted = <<>> THEN <<x>>
    ELSE IF Head(sorted).priority >= x.priority
         THEN <<Head(sorted)>> \o InsertByPriority(Tail(sorted), x)
         ELSE <<x>> \o sorted

RECURSIVE SortByPriority(_)
SortByPriority(ss) ==
    IF ss = <<>> THEN <<>>
    ELSE InsertByPriority(SortByPriority(SubSeq(ss, 1, Len(ss) - 1)), ss[Len(ss)])

\* ScheduleManager.should_block over the schedules ss when datetime.now() is t:
\* (should_block, schedule_id)
ManagerShouldBlockAt(ss, t, domain, category) ==
    LET hits == SelectSeq(SortByPriority(ss),
                          LAMBDA sch : ScheduleShouldBlock(sch, t, domain, category)) IN
    IF hits = <<>> THEN [block |-> FALSE, id |-> None]
    ELSE [block |-> TRUE, id |-> Head(hits).id]

ManagerShouldBlock(domain, category) ==
    ManagerShouldBlockAt(schedules, Now, domain, category)

(***************************************************************************)
(* blocker.py: BlockingEngine.check and its helpers.  An Optional value is *)
(* a sequence of length 0 (None) or 1.                                     *)
(***************************************************************************)
MaxPatterns == 1         \* bound on the length of self.url_patterns

BlockDecision(should_block, reason, rule_id, rule_type, category, schedule_id) ==
    [should_block |-> should_block, reason |-> reason, rule_id |-> rule_id,
     rule_type |-> rule_type, category |-> category, schedule_id |-> schedule_id]

\* (variant: only the exact name is looked up)
IsWhitelisted_ExactOnly(domain) == domain \in whitelisted_domains

\* _is_whitelisted
IsWhitelisted(domain) == \E w \in whitelisted_domains : DomainMatches(domain, w)

\* _check_domain_block
CheckDomainBlock(domain) == \E b \in blocked_domains : DomainMatches(domain, b)

\* re.compile(pattern, re.I): a pattern whose parentheses do not pair up does
\* not compile
RECURSIVE OpenGroups(_, _)
OpenGroups(pattern, depth) ==
    IF pattern = <<>> \/ depth < 0 THEN depth
    ELSE OpenGroups(Tail(pattern),
                    CASE Head(pattern) = "(" -> depth + 1
                      [] Head(pattern) = ")" -> depth - 1
                      [] OTHER -> depth)
RegexCompiles(pattern) == OpenGroups(pattern, 0) = 0

\* pattern.search(url) for such a pattern: a case-insensitive substring search
PatternSearch(pattern, url) == StrContains(StrLower(url), StrLower(pattern))

\* _check_url_patterns: the patterns found in the url; the first is the one returned
CheckUrlPatterns(url) == SelectSeq(url_patterns, LAMBDA pat : PatternSearch(pat, url))

\* _check_keywords: the keywords that occur in (url + " " + content).lower(); the
\* first is the one returned
CheckKeywords(url, content) ==
    LET combined == StrLower(url \o Str_space \o content) IN
    SelectSeq(blocked_keywords, LAMBDA k : StrContains(combined, StrLower(k)))

\* check(): "Check direct domain blocks"
DomainBlockResult(domain) ==
    IF CheckDomainBlock(domain)
    THEN <<BlockDecision(TRUE, "Domain blocked", None, "domain", NoCategory, None)>>
    ELSE <<>>

\* check(): "Check URL patterns"
UrlPatternResult(url) ==
    IF CheckUrlPatterns(url) # <<>>
    THEN <<BlockDecision(TRUE, "URL pattern matched", None, "url_pattern", NoCategory, None)>>
    ELSE <<>>

\* check(): "Check categories"
CategoryResult(domain) ==
    LET hits == SelectSeq(CheckDomainCategory(domain), LAMBDA c : c \in blocked_categories) IN
    IF hits # <<>>
    THEN <<BlockDecision(TRUE, "Category blocked", None, "category", Head(hits), None)>>
    ELSE <<>>

\* check(): "Check time-based schedules", per category and then for the domain alone
ScheduleResult(domain, check_schedule) ==
    LET hits == SelectSeq(CheckDomainCategory(domain),
                          LAMBDA c : ManagerShouldBlock(domain, c).block)
        alone == ManagerShouldBlock(domain, Str_Empty) IN
    IF ~check_schedule THEN <<>>
    ELSE IF hits # <<>>
         THEN <<BlockDecision(TRUE, "Blocked by schedule", None, "schedule", Head(hits),
                              ManagerShouldBlock(domain, Head(hits)).id)>>
    ELSE IF alone.block
         THEN <<BlockDecision(TRUE, "Blocked by schedule", None, "schedule", NoCategory,
                              alone.id)>>
    ELSE <<>>

\* check(): "Check keywords in URL"
CategoryKeywordResult(url, content) ==
    LET hits == SelectSeq(CheckUrlKeywords(url, content), LAMBDA c : c \in blocked_categories) IN
    IF hits # <<>>
    THEN <<BlockDecision(TRUE, "Keyword matched in category", None, "keyword", Head(hits),
                         None)>>
    ELSE <<>>

\* check(): "Check custom keywords"
KeywordResult(url, content) ==
    IF CheckKeywords(url, content) # <<>>
    THEN <<BlockDecision(TRUE, "Keyword blocked", None, "keyword", NoCategory, None)>>
    ELSE <<>>

\* (variant: the enabled rules are the ones skipped)
CustomRuleResult_SkipsEnabled(domain) ==
    LET hits == SelectSeq(custom_rules,
                          LAMBDA r : ~r.enabled /\ r.rule_type = "domain"
                                     /\ domain = StrLower(r.value)) IN
    IF hits # <<>>
    THEN <<BlockDecision(TRUE, "Custom rule", Head(hits).id, "custom", NoCategory, None)>>
    ELSE <<>>

\* check(): "Check custom rules"
CustomRuleResult(domain) ==
    LET hits == SelectSeq(custom_rules,
                          LAMBDA r : r.enabled /\ r.rule_type = "domain"
                                     /\ domain = StrLower(r.value)) IN
    IF hits # <<>>
    THEN <<BlockDecision(TRUE, "Custom rule", Head(hits).id, "custom", NoCategory, None)>>
    ELSE <<>>

\* (variant: the generic keyword test is made before the schedule test)
ClassResults_KeywordBeforeSchedule(domain, url, content, check_schedule) ==
    DomainBlockResult(domain) \o UrlPatternResult(url) \o CategoryResult(domain)
      \o KeywordResult(url, content) \o ScheduleResult(domain, check_schedule)
      \o CategoryKeywordResult(url, content) \o CustomRuleResult(domain)

\* check(): the blocking decisions of the tests made after the whitelist test, in
\* the order in which check() makes them
ClassResults(domain, url, content, check_schedule) ==
    DomainBlockResult(domain) \o UrlPatternResult(url) \o CategoryResult(domain)
      \o ScheduleResult(domain, check_schedule) \o CategoryKeywordResult(url, content)
      \o KeywordResult(url, content) \o CustomRuleResult(domain)

\* BlockingEngine.check: the whitelist first, then the first test that blocks
Check(domain0, url0, content, check_schedule) ==
    LET domain == StrStrip(StrLower(domain0))
        url    == StrStrip(StrLower(url0))
        hits   == ClassResults(domain, url, content, check_schedule) IN
    IF IsWhitelisted(domain)
    THEN BlockDecision(FALSE, "Domain is whitelisted", None, None, NoCategory, None)
    ELSE IF hits # <<>> THEN Head(hits)
    ELSE BlockDecision(FALSE, "Allowed", None, None, NoCategory, None)

(***************************************************************************)
(* The policy operations of BlockingEngine and ScheduleManager.  Every     *)
(* operation that changes the configuration ends with _save_config or      *)
(* _save_schedules.                                                        *)
(***************************************************************************)
\* the arguments the operations are called with
DomainArgs   == {Str_EA_com_sp}
CategoryArgs == {Str_gaming, Str_ADULT, Str_bogus}
KeywordArgs  == {Str_Ab, Str_ab}
PatternArgs  == {Str_pat_X, Str_pat_bad}

BlockRule(id, rule_type, value, enabled) ==
    [id |-> id, rule_type |-> rule_type, value |-> value, enabled |-> enabled]

RuleArgs == {BlockRule("r1", "domain", Str_EA_com, TRUE)}
RuleIds  == {"r1"}

Weekdays == 0..4         \* DayOfWeek.MONDAY .. DayOfWeek.FRIDAY

Schedule(id, schedule_type, categories, domains, time_ranges, priority) ==
    [id |-> id, schedule_type |-> schedule_type, enabled |-> TRUE,
     categories |-> categories, domains |-> domains, time_ranges |-> time_ranges,
     start_date |-> NoDate, end_date |-> NoDate, priority |-> priority]

\* "homework": gaming sites and b.io are blocked Monday to Friday 16:00-18:00
Homework ==
    Schedule("homework", "time_range", {Str_gaming}, {Str_b_io},
             [d \in Weekdays |-> <<TimeRange(16, 0, 18, 0)>>], 0)

ScheduleArgs == {Homework}
ScheduleIds  == {"homework"}

\* the check() calls made
CheckArgs(domain, url, content) ==
    [domain |-> domain, url |-> url, content |-> content, check_schedule |-> TRUE]

Requests ==
    {CheckArgs(Str_EA_com_sp, Str_Empty, Str_Empty),
     CheckArgs(Str_a_ea_com, Str_url_EA_xxx, Str_ab),
     CheckArgs(Str_nea_com, Str_Empty, Str_ab),
     CheckArgs(Str_b_io, Str_Empty, Str_Empty),
     CheckArgs(Str_steampowered_com, Str_Empty, Str_Empty)}

\* insertion-ordered dicts keyed by the id field
HasId(d, id) == \E i \in 1..Len(d) : d[i].id = id
IdPut(d, x) ==
    IF HasId(d, x.id) THEN [i \in 1..Len(d) |-> IF d[i].id = x.id THEN x ELSE d[i]]
    ELSE Append(d, x)
IdDel(d, id) == SelectSeq(d, LAMBDA x : x.id # id)
IdSet(d, id, en) ==
    [i \in 1..Len(d) |-> IF d[i].id = id THEN [d[i] EXCEPT !.enabled = en] ELSE d[i]]

\* the document _save_config writes
ConfigData ==
    [blocked_domains |-> blocked_domains, whitelisted_domains |-> whitelisted_domains,
     blocked_categories |-> blocked_categories, blocked_keywords |-> blocked_keywords,
     url_patterns |-> url_patterns, custom_rules |-> custom_rules]

PolicyInit ==
    /\ blocked_domains = {}
    /\ whitelisted_domains = {}
    /\ blocked_categories = {}
    /\ blocked_keywords = <<>>
    /\ url_patterns = <<>>
    /\ custom_rules = <<>>
    /\ schedules = <<>>
    /\ config_file = <<>>
    /\ schedule_file = <<>>
    /\ clock = 1
    /\ request = <<>>
    /\ decision = <<>>
    /\ prior = <<>>
    /\ roundtrip = <<>>

\* The caller checks a request, may then disable or remove one rule, and checks the
\* same request again.  A removal made while a verdict is held puts the verdict
\* aside in prior, with the kind of the operation: "removal" (a blocking rule is
\* disabled or removed) or "whitelist_removal".  Any other policy operation makes
\* the caller drop the verdict it holds.
Change(kind) ==
    /\ prior = <<>>
    /\ IF decision # <<>> /\ kind # "other"
       THEN /\ prior' = <<[kind |-> kind, blocked |-> decision[1].should_block]>>
            /\ decision' = <<>>
            /\ UNCHANGED request
       ELSE /\ request' = <<>>
            /\ decision' = <<>>
            /\ prior' = <<>>
    /\ UNCHANGED notPolicy

\* _save_config
SaveConfig == config_file' = <<ConfigData'>>

\* _load_config: the policy a new engine reads from the file; without a file it
\* keeps the empty policy of __init__
LoadConfig ==
    IF config_file = <<>>
    THEN [blocked_domains |-> {}, whitelisted_domains |-> {},
          blocked_categories |-> {}, blocked_keywords |-> <<>>,
          url_patterns |-> <<>>, custom_rules |-> <<>>]
    ELSE config_file[1]

\* an operation that changed the policy in memory and saved it
Saved(kind) ==
    /\ Change(kind)
    /\ SaveConfig
    /\ UNCHANGED <<schedules, schedule_file, clock>>

EngineOp(kind) ==
    /\ Saved(kind)
    /\ roundtrip' = <<>>

\* roundtrip remembers the policy, in memory and as a load of the file gives it,
\* from before a block_domain(d) call until the operation after the next one
BlockDomain(d) ==
    /\ blocked_domains' = blocked_domains \cup {StrStrip(StrLower(d))}
    /\ UNCHANGED <<whitelisted_domains, blocked_categories, blocked_keywords,
                   url_patterns, custom_rules>>
    /\ Saved("other")
    /\ roundtrip' = <<[domain |-> d, unblocked |-> FALSE,
                       memory |-> ConfigData, persisted |-> LoadConfig]>>

\* unblock_domain discarding d as given, neither lower-cased nor stripped
UnblockDomain_AsGiven(d) ==
    /\ blocked_domains' = blocked_domains \ {d}
    /\ UNCHANGED <<whitelisted_domains, blocked_categories, blocked_keywords,
                   url_patterns, custom_rules>>
    /\ Saved("removal")
    /\ roundtrip' = IF roundtrip # <<>> /\ ~roundtrip[1].unblocked
                       /\ roundtrip[1].domain = d
                    THEN <<[roundtrip[1] EXCEPT !.unblocked = TRUE]>>
                    ELSE <<>>

UnblockDomain(d) ==
    /\ blocked_domains' = blocked_domains \ {StrStrip(StrLower(d))}
    /\ UNCHANGED <<whitelisted_domains, blocked_categories, blocked_keywords,
                   url_patterns, custom_rules>>
    /\ Saved("removal")
    /\ roundtrip' = IF roundtrip # <<>> /\ ~roundtrip[1].unblocked
                       /\ roundtrip[1].domain = d
                    THEN <<[roundtrip[1] EXCEPT !.unblocked = TRUE]>>
                    ELSE <<>>

WhitelistDomain(d) ==
    /\ whitelisted_domains' = whitelisted_domains \cup {StrStrip(StrLower(d))}
    /\ UNCHANGED <<blocked_domains, blocked_categories, blocked_keywords,
                   url_patterns, custom_rules>>
    /\ EngineOp("other")

RemoveWhitelist(d) ==
    /\ whitelisted_domains' = whitelisted_domains \ {StrStrip(StrLower(d))}
    /\ UNCHANGED <<blocked_domains, blocked_categories, blocked_keywords,
                   url_patterns, custom_rules>>
    /\ EngineOp("whitelist_removal")

\* an operation that returns False without saving
Rejected(kind) ==
    /\ Change(kind)
    /\ UNCHANGED <<blocked_domains, whitelisted_domains, blocked_categories,
                   blocked_keywords, url_patterns, custom_rules, schedules,
                   config_file, schedule_file, clock>>
    /\ roundtrip' = <<>>

EngineBlockCategory(c) ==
    IF GetCategory(c) = NoCategory THEN Rejected("other")
    ELSE /\ blocked_categories' = blocked_categories \cup {GetCategory(c)}
         /\ UNCHANGED <<blocked_domains, whitelisted_domains, blocked_keywords,
                        url_patterns, custom_rules>>
         /\ EngineOp("other")

EngineUnblockCategory(c) ==
    IF GetCategory(c) = NoCategory THEN Rejected("removal")
    ELSE /\ blocked_categories' = blocked_categories \ {GetCategory(c)}
         /\ UNCHANGED <<blocked_domains, whitelisted_domains, blocked_keywords,
                        url_patterns, custom_rules>>
         /\ EngineOp("removal")

AddKeyword(k) ==
    IF \E i \in 1..Len(blocked_keywords) : StrLower(blocked_keywords[i]) = StrLower(k)
    THEN Rejected("other")
    ELSE /\ blocked_keywords' = Append(blocked_keywords, k)
         /\ UNCHANGED <<blocked_domains, whitelisted_domains, blocked_categories,
                        url_patterns, custom_rules>>
         /\ EngineOp("other")

\* the list without its first element that satisfies P
RemoveFirst(xs, P(_)) ==
    LET i == CHOOSE j \in 1..Len(xs) : P(xs[j]) /\ \A m \in 1..(j - 1) : ~P(xs[m]) IN
    SubSeq(xs, 1, i - 1) \o SubSeq(xs, i + 1, Len(xs))

RemoveKeyword(k) ==
    IF \E i \in 1..Len(blocked_keywords) : StrLower(blocked_keywords[i]) = StrLower(k)
    THEN /\ blocked_keywords' =
               RemoveFirst(blocked_keywords, LAMBDA x : StrLower(x) = StrLower(k))
         /\ UNCHANGED <<blocked_domains, whitelisted_domains, blocked_categories,
                        url_patterns, custom_rules>>
         /\ EngineOp("removal")
    ELSE Rejected("removal")

AddUrlPattern(pat) ==
    IF RegexCompiles(pat)
    THEN /\ Len(url_patterns) < MaxPatterns
         /\ url_patterns' = Append(url_patterns, pat)
         /\ UNCHANGED <<blocked_domains, whitelisted_domains, blocked_categories,
                        blocked_keywords, custom_rules>>
         /\ EngineOp("other")
    ELSE Rejected("other")

RemoveUrlPattern(pat) ==
    IF \E i \in 1..Len(url_patterns) : url_patterns[i] = pat
    THEN /\ url_patterns' = RemoveFirst(url_patterns, LAMBDA x : x = pat)
         /\ UNCHANGED <<blocked_domains, whitelisted_domains, blocked_categories,
                        blocked_keywords, custom_rules>>
         /\ EngineOp("removal")
    ELSE Rejected("removal")

AddRule(rule) ==
    /\ custom_rules' = IdPut(custom_rules, rule)
    /\ UNCHANGED <<blocked_domains, whitelisted_domains, blocked_categories,
                   blocked_keywords, url_patterns>>
    /\ EngineOp("other")

RemoveRule(id) ==
    IF HasId(custom_rules, id)
    THEN /\ custom_rules' = IdDel(custom_rules, id)
         /\ UNCHANGED <<blocked_domains, whitelisted_domains, blocked_categories,
                        blocked_keywords, url_patterns>>
         /\ EngineOp("removal")
    ELSE Rejected("removal")

SetRuleEnabled(id, en, kind) ==
    IF HasId(custom_rules, id)
    THEN /\ custom_rules' = IdSet(custom_rules, id, en)
         /\ UNCHANGED <<blocked_domains, whitelisted_domains, blocked_categories,
                        blocked_keywords, url_patterns>>
         /\ EngineOp(kind)
    ELSE Rejected(kind)

EnableRule(id) == SetRuleEnabled(id, TRUE, "other")

\* disable_rule
DisableRule(id) == SetRuleEnabled(id, FALSE, "removal")

\* _save_schedules
ScheduleOp(kind) ==
    /\ Change(kind)
    /\ schedule_file' = <<schedules'>>
    /\ roundtrip' = <<>>
    /\ UNCHANGED <<blocked_domains, whitelisted_domains, blocked_categories,
                   blocked_keywords, url_patterns, custom_rules, config_file, clock>>

AddSchedule(sch) ==
    /\ schedules' = IdPut(schedules, sch)
    /\ ScheduleOp("other")

\* update_schedule(id, {"enabled": en})
UpdateSchedule(id, en) ==
    IF HasId(schedules, id)
    THEN /\ schedules' = IdSet(schedules, id, en)
         /\ ScheduleOp(IF en THEN "other" ELSE "removal")
    ELSE Rejected(IF en THEN "other" ELSE "removal")

DeleteSchedule(id) ==
    IF HasId(schedules, id)
    THEN /\ schedules' = IdDel(schedules, id)
         /\ ScheduleOp("removal")
    ELSE Rejected("removal")

\* time passes: datetime.now() moves on to the next instant
Tick ==
    /\ clock < Len(Instants)
    /\ clock' = clock + 1
    /\ Change("other")
    /\ roundtrip' = <<>>
    /\ UNCHANGED <<blocked_domains, whitelisted_domains, blocked_categories,
                   blocked_keywords, url_patterns, custom_rules, schedules,
                   config_file, schedule_file>>

policyState == <<blocked_domains, whitelisted_domains, blocked_categories,
                 blocked_keywords, url_patterns, custom_rules, schedules,
                 config_file, schedule_file, clock, roundtrip>>

\* a check() call
CheckCall(req) ==
    /\ request = <<>>
    /\ request' = <<req>>
    /\ decision' = <<Check(req.domain, req.url, req.content, req.check_schedule)>>
    /\ prior' = <<>>
    /\ UNCHANGED policyState
    /\ UNCHANGED notPolicy

\* the same check() call again, after a policy operation
Recheck ==
    /\ request # <<>> /\ decision = <<>>
    /\ decision' = <<Check(request[1].domain, request[1].url, request[1].content,
                           request[1].check_schedule)>>
    /\ UNCHANGED <<request, prior>>
    /\ UNCHANGED policyState
    /\ UNCHANGED notPolicy

\* the caller drops the verdict it holds
Forget ==
    /\ decision # <<>>
    /\ request' = <<>> /\ decision' = <<>> /\ prior' = <<>>
    /\ UNCHANGED policyState
    /\ UNCHANGED notPolicy

PolicyNext ==
    \/ \E d \in DomainArgs : BlockDomain(d)
    \/ \E d \in DomainArgs : UnblockDomain(d)
    \/ \E d \in DomainArgs : WhitelistDomain(d)
    \/ \E d \in DomainArgs : RemoveWhitelist(d)
    \/ \E c \in CategoryArgs : EngineBlockCategory(c)
    \/ \E c \in CategoryArgs : EngineUnblockCategory(c)
    \/ \E k \in KeywordArgs : AddKeyword(k)
    \/ \E k \in KeywordArgs : RemoveKeyword(k)
    \/ \E pat \in PatternArgs : AddUrlPattern(pat)
    \/ \E pat \in PatternArgs : RemoveUrlPattern(pat)
    \/ \E rule \in RuleArgs : AddRule(rule)
    \/ \E id \in RuleIds : RemoveRule(id)
    \/ \E id \in RuleIds : EnableRule(id)
    \/ \E id \in RuleIds : DisableRule(id)
    \/ \E sch \in ScheduleArgs : AddSchedule(sch)
    \/ \E id \in ScheduleIds, en \in BOOLEAN : UpdateSchedule(id, en)
    \/ \E id \in ScheduleIds : DeleteSchedule(id)
    \/ Tick
    \/ \E req \in Requests : CheckCall(req)
    \/ Recheck
    \/ Forget

(***************************************************************************)
(* Properties of BlockingEngine.check                                      *)
(***************************************************************************)
\* the domain of the last check() call as check() compares it
RequestDomain == StrStrip(StrLower(request[1].domain))
RequestUrl    == StrStrip(StrLower(request[1].url))

\* name equals entry, or is a subdomain of it: some labels and a dot before entry
EqualsOrSubdomainOf(name, entry) ==
    \E k \in 0..Len(name) :
        /\ SubSeq(name, k + 1, Len(name)) = entry
        /\ (k = 0 \/ name[k] = ".")

WhitelistCovers(name) == \E w \in whitelisted_domains : EqualsOrSubdomainOf(name, w)

\* some blocking rule matches the last check() call
SomeBlockingRuleMatches ==
    ClassResults(RequestDomain, RequestUrl, request[1].content,
                 request[1].check_schedule) # <<>>

\* C6: in every reachable policy state, check() returns allow for a domain that
\* equals a whitelisted domain or is a subdomain of one, whatever blocklist entries,
\* URL patterns, categories, schedules, keywords or custom rules also match.
C6_WhitelistAlwaysAllows ==
    (decision # <<>> /\ WhitelistCovers(RequestDomain)) => ~decision[1].should_block

\* C6 witness: a.ea.com is checked while ea.com is both whitelisted and on the
\* blocklist, and other rules match too; the verdict is allow.
C6_Witness ==
    /\ decision # <<>>
    /\ request[1].domain = Str_a_ea_com
    /\ Str_ea_com \in whitelisted_domains
    /\ Str_ea_com \in blocked_domains
    /\ SomeBlockingRuleMatches
    /\ ~decision[1].should_block

\* the rule classes in the order of the claim; 0 stands for "no class"
MatchingClasses ==
    LET d == RequestDomain
        u == RequestUrl
        c == request[1].content IN
    {n \in 1..7 :
        \/ n = 1 /\ CheckDomainBlock(d)
        \/ n = 2 /\ CheckUrlPatterns(u) # <<>>
        \/ n = 3 /\ \E cat \in blocked_categories :
                        \E i \in 1..Len(CheckDomainCategory(d)) : CheckDomainCategory(d)[i] = cat
        \/ n = 4 /\ request[1].check_schedule
                 /\ \/ ManagerShouldBlock(d, Str_Empty).block
                    \/ \E i \in 1..Len(CheckDomainCategory(d)) :
                           ManagerShouldBlock(d, CheckDomainCategory(d)[i]).block
        \/ n = 5 /\ \E cat \in blocked_categories :
                        \E i \in 1..Len(CheckUrlKeywords(u, c)) : CheckUrlKeywords(u, c)[i] = cat
        \/ n = 6 /\ CheckKeywords(u, c) # <<>>
        \/ n = 7 /\ \E i \in 1..Len(custom_rules) :
                        /\ custom_rules[i].enabled
                        /\ custom_rules[i].rule_type = "domain"
                        /\ d = StrLower(custom_rules[i].value)}

FirstMatchingClass ==
    IF MatchingClasses = {} THEN 0
    ELSE CHOOSE n \in MatchingClasses : \A m \in MatchingClasses : n <= m

\* the class a decision says it comes from
DecisionClass(dec) ==
    IF ~dec.should_block THEN 0
    ELSE IF dec.rule_type = "domain" THEN 1
    ELSE IF dec.rule_type = "url_pattern" THEN 2
    ELSE IF dec.rule_type = "category" THEN 3
    ELSE IF dec.rule_type = "schedule" THEN 4
    ELSE IF dec.rule_type = "keyword" /\ dec.category # NoCategory THEN 5
    ELSE IF dec.rule_type = "keyword" THEN 6
    ELSE 7

\* C7: when several rule classes match the same request, check() returns the
\* decision of the first matching class in the order blocklist domain, URL regex
\* pattern, blocked category, active schedule, category URL keywords, generic
\* blocked keyword, custom rule; when none matches it returns allow.
C7_FirstMatchingClassWins ==
    (decision # <<>> /\ ~WhitelistCovers(RequestDomain))
        => DecisionClass(decision[1]) = FirstMatchingClass

\* C7 witness: the schedule, the category keywords and a generic keyword all match
\* a request that no earlier class matches, and the schedule's decision is returned.
C7_Witness ==
    /\ decision # <<>>
    /\ ~WhitelistCovers(RequestDomain)
    /\ MatchingClasses = {4, 5, 6}
    /\ decision[1].rule_type = "schedule"
    /\ decision[1].schedule_id = "homework"

\* C8 (as stated): disabling or removing any single policy rule, whitelist entries
\* included, never changes the verdict for a request from allow to block.
C8_AnyRemovalKeepsAllow ==
    (decision # <<>> /\ prior # <<>>
        /\ prior[1].kind \in {"removal", "whitelist_removal"} /\ ~prior[1].blocked)
    => ~decision[1].should_block

\* C8 (amended): disabling or removing any single blocking rule (blocklist domain,
\* URL pattern, blocked category, keyword, schedule, custom rule) never changes the
\* verdict for a request from allow to block.
C8_BlockingRemovalKeepsAllow ==
    (decision # <<>> /\ prior # <<>> /\ prior[1].kind = "removal" /\ ~prior[1].blocked)
    => ~decision[1].should_block

\* C8 witness: a request that no rule blocked is checked again after custom rule r1
\* has been disabled, and is still allowed.
C8_Witness ==
    /\ decision # <<>> /\ prior # <<>>
    /\ prior[1].kind = "removal" /\ ~prior[1].blocked
    /\ \E i \in 1..Len(custom_rules) : custom_rules[i].id = "r1" /\ ~custom_rules[i].enabled
    /\ whitelisted_domains = {}
    /\ blocked_domains # {}
    /\ ~decision[1].should_block

\* C18: with the schedule "homework" (time_range, Monday to Friday 16:00-18:00,
\* category gaming) in place and nothing else deciding for the domain,
\* check(domain="steampowered.com") at Monday 17:00 returns block with
\* rule_type=schedule, schedule_id=homework and category=gaming, and at Monday
\* 18:01 it returns allow.
HomeworkDecides ==
    /\ decision # <<>>
    /\ request[1] = CheckArgs(Str_steampowered_com, Str_Empty, Str_Empty)
    /\ schedules = <<Homework>>
    /\ Str_gaming \notin blocked_categories
    /\ ~WhitelistCovers(RequestDomain)

C18_HomeworkBlocksGamingInRange ==
    HomeworkDecides =>
        IF Now = Instants[1]
        THEN /\ decision[1].should_block
             /\ decision[1].rule_type = "schedule"
             /\ decision[1].schedule_id = "homework"
             /\ decision[1].category = Str_gaming
        ELSE Now = Instants[2] /\ ~decision[1].should_block

C18_Witness ==
    /\ HomeworkDecides
    /\ Now = Instants[1]
    /\ decision[1].should_block
    /\ decision[1].schedule_id = "homework"

(***************************************************************************)
(* block_domain(d); unblock_domain(d)                                      *)
(***************************************************************************)
\* the pair of calls has just been made
RoundTripDone == roundtrip # <<>> /\ roundtrip[1].unblocked

\* the policy is what it was before the pair, in memory and as persisted
RoundTripRestores ==
    /\ ConfigData = roundtrip[1].memory
    /\ LoadConfig = roundtrip[1].persisted

\* d, as the engine stores it, was blocked before the pair
RoundTripAlreadyBlocked ==
    StrStrip(StrLower(roundtrip[1].domain)) \in roundtrip[1].memory.blocked_domains

\* C21 as stated: for every policy state and every domain d, block_domain(d)
\* followed by unblock_domain(d) leaves the policy, in memory and as persisted,
\* equal to its state before the two calls
C21_RoundTripAlways == RoundTripDone => RoundTripRestores

\* C21 amended: the pair restores the policy, in memory and as persisted, when d
\* was not already blocked before the two calls
C21_RoundTripWhenNotBlocked ==
    (RoundTripDone /\ ~RoundTripAlreadyBlocked) => RoundTripRestores

\* a pair made on a policy that holds other entries and does not block d
C21_Witness ==
    /\ RoundTripDone /\ ~RoundTripAlreadyBlocked
    /\ roundtrip[1].memory.whitelisted_domains # {}
    /\ config_file # <<>>

(***************************************************************************)
(* transparent_proxy.py: TrafficInterceptor, the mitmproxy addon, and the   *)
(* block-list operations of TransparentProxy.  mitmproxy calls the hooks    *)
(* from one event loop, so a hook runs to its end before the next starts;   *)
(* the configuration commands run on the main thread, beside the hooks.     *)
(***************************************************************************)
MaxFlows == 2
FlowIds  == 1..MaxFlows

\* the requests clients make: host, pretty_url, and whether the parser raises
\* on the request or on the response
FlowRequest(host, url, reqBad, respBad) ==
    [host |-> host, url |-> url, reqBad |-> reqBad, respBad |-> respBad]

FlowArgs ==
    {FlowRequest(Str_EA_com, Str_url_EA_xxx, FALSE, FALSE),
     FlowRequest(Str_b_io, Str_url_b_ea, FALSE, FALSE),
     FlowRequest(Str_b_io, Str_url_b, FALSE, FALSE),
     FlowRequest(Str_b_io, Str_url_b, TRUE, FALSE),
     FlowRequest(Str_b_io, Str_url_b, FALSE, TRUE)}

BlocklistArgs     == {Str_EA_com}
ProxyCategoryArgs == {Str_gaming, Str_Gaming}
ProxyKeywordArgs  == {Str_xxx, Str_XXX}

\* the longest keyword-alert list explored
MaxKeywordAlerts == 2

\* a flow mitmproxy has not created yet
NoFlow ==
    [phase |-> "none", host |-> Str_Empty, url |-> Str_Empty, reqBad |-> FALSE,
     respBad |-> FALSE, killed |-> FALSE, forwarded |-> FALSE, response |-> <<>>]

\* TrafficCategory(value): the members used here, in declaration order
TrafficCategoryValues == {Str_gaming, Str_other}

\* CATEGORY_PATTERNS, the entries the hosts used here can match: a pattern such as
\* r'ea\.com' matches where the text 'ea.com' occurs
CategoryPatterns == <<[category |-> Str_gaming, patterns |-> <<Str_ea_com>>]>>

\* TrafficParser._categorize_domain
CategorizeDomain(host) ==
    LET domain == StrLower(host)
        hits == SelectSeq(CategoryPatterns,
                    LAMBDA e : \E i \in 1..Len(e.patterns) : StrContains(domain, e.patterns[i])) IN
    IF hits # <<>> THEN Head(hits).category ELSE Str_other

\* _should_block, the test made on one entry: blocked in host or blocked in url
EntryBlocks(blocked, fl) ==
    \/ StrContains(StrLower(fl.host), StrLower(blocked))
    \/ StrContains(StrLower(fl.url), StrLower(blocked))

\* TrafficInterceptor._should_block, run over a block list that stays as it is
ShouldBlock(fl) == \E blocked \in block_list : EntryBlocks(blocked, fl)

\* a hook is in progress on the event loop
HookRunning == block_iter # <<>>

\* (variant: only the response is parsed once there is one)
ParseMitmproxyFlow_ResponseOnly(fl) ==
    IF fl.response # <<>>
    THEN (IF fl.respBad THEN <<>> ELSE <<"parsed">>)
    ELSE (IF fl.reqBad THEN <<>> ELSE <<"parsed">>)

\* TrafficParser.parse_mitmproxy_flow: <<>> when it raises; the request is parsed,
\* and the response when there is one
ParseMitmproxyFlow(fl) ==
    IF fl.reqBad \/ (fl.response # <<>> /\ fl.respBad) THEN <<>> ELSE <<"parsed">>

\* _block_flow: flow.kill()
BlockedFlow(fl) == [fl EXCEPT !.killed = TRUE, !.phase = "killed"]

\* an entry of the list _check_keyword_alerts returns: f"KEYWORD_URL:{keyword}"
KeywordAlert(place, keyword) == [place |-> place, keyword |-> keyword]

\* TrafficInterceptor._check_keyword_alerts: one alert for every entry of
\* config.keyword_alerts whose lower-case form occurs in the lower-case URL.  The
\* flows here are requests without a body answered without a body, so the two
\* body scans find no content to look at.
CheckKeywordAlerts(fl) ==
    LET url  == StrLower(fl.url)
        hits == SelectSeq(keyword_alerts, LAMBDA k : StrContains(url, StrLower(k))) IN
    [i \in 1..Len(hits) |-> KeywordAlert("KEYWORD_URL", StrLower(hits[i]))]

ProxyInit ==
    /\ block_list = {}
    /\ category_blocks = {}
    /\ active_flows = {}
    /\ flows = [f \in FlowIds |-> NoFlow]
    /\ emitted = [f \in FlowIds |-> <<>>]
    /\ command = <<>>
    /\ keyword_alerts = <<>>
    /\ flow_alerts = [f \in FlowIds |-> <<>>]
    /\ block_iter = <<>>

\* a client request arrives and mitmproxy creates the flow
NewFlow(f, a) ==
    /\ ~HookRunning
    /\ flows[f].phase = "none"
    /\ flows' = [flows EXCEPT ![f] = [NoFlow EXCEPT !.phase = "new", !.host = a.host,
                                        !.url = a.url, !.reqBad = a.reqBad,
                                        !.respBad = a.respBad]]
    /\ UNCHANGED <<block_list, category_blocks, active_flows, emitted>>
    /\ UNCHANGED command
    /\ UNCHANGED <<keyword_alerts, flow_alerts, block_iter>>
    /\ UNCHANGED notProxy

\* TrafficInterceptor.request, up to the for statement of _should_block: the
\* iterator over config.block_list is made, and notes the size of the set
RequestHook(f) ==
    /\ ~HookRunning
    /\ flows[f].phase = "new"
    /\ flows' = [flows EXCEPT ![f].phase = "checking"]
    /\ block_iter' = <<[flow |-> f, used |-> Cardinality(block_list), rest |-> block_list]>>
    /\ UNCHANGED <<block_list, category_blocks, active_flows, emitted>>
    /\ UNCHANGED <<command, keyword_alerts, flow_alerts>>
    /\ UNCHANGED notProxy

\* request() after _should_block returned False: the category check, then the
\* flow is tracked and its request event emitted
RequestUnblocked(f) ==
    IF CategorizeDomain(flows[f].host) \in category_blocks
    THEN /\ flows' = [flows EXCEPT ![f] = BlockedFlow(flows[f])]
         /\ emitted' = [emitted EXCEPT ![f] = Append(@, "blocked")]
         /\ UNCHANGED active_flows
    ELSE /\ active_flows' = active_flows \cup {f}
         /\ emitted' = [emitted EXCEPT ![f] =
                           Append(@, IF ParseMitmproxyFlow(flows[f]) # <<>>
                                     THEN "request" ELSE "error")]
         /\ flows' = [flows EXCEPT ![f].phase = "requested"]

\* one turn of `for blocked in self.config.block_list` and what follows it in
\* request().  The iterator raises RuntimeError when the set's size is no longer
\* the one it noted: the exception leaves request(), mitmproxy logs it and the
\* flow goes on.  An entry found in the host or the URL blocks the flow.
RequestNext(f) ==
    /\ block_iter # <<>>
    /\ block_iter[1].flow = f
    /\ LET it == block_iter[1] IN
       IF Cardinality(block_list) # it.used
       THEN /\ flows' = [flows EXCEPT ![f].phase = "requested"]
            /\ block_iter' = <<>>
            /\ UNCHANGED <<active_flows, emitted>>
       ELSE IF it.rest = {}
            THEN /\ RequestUnblocked(f)
                 /\ block_iter' = <<>>
            ELSE \E blocked \in it.rest :
                    IF EntryBlocks(blocked, flows[f])
                    THEN /\ flows' = [flows EXCEPT ![f] = BlockedFlow(flows[f])]
                         /\ emitted' = [emitted EXCEPT ![f] = Append(@, "blocked")]
                         /\ block_iter' = <<>>
                         /\ UNCHANGED active_flows
                    ELSE /\ block_iter' = <<[it EXCEPT !.rest = @ \ {blocked}]>>
                         /\ UNCHANGED <<flows, active_flows, emitted>>
    /\ UNCHANGED <<block_list, category_blocks>>
    /\ UNCHANGED <<command, keyword_alerts, flow_alerts>>
    /\ UNCHANGED notProxy

\* mitmproxy sends the request upstream and receives the server's response
Forward(f) ==
    /\ ~HookRunning
    /\ flows[f].phase = "requested"
    /\ flows' = [flows EXCEPT ![f].phase = "responded", ![f].forwarded = TRUE,
                              ![f].response = <<200>>]
    /\ UNCHANGED <<block_list, category_blocks, active_flows, emitted>>
    /\ UNCHANGED command
    /\ UNCHANGED <<keyword_alerts, flow_alerts, block_iter>>
    /\ UNCHANGED notProxy

\* TrafficInterceptor.response
ResponseHook(f) ==
    /\ ~HookRunning
    /\ flows[f].phase = "responded"
    /\ active_flows' = active_flows \ {f}
    /\ LET alerts == CheckKeywordAlerts(flows[f]) IN
       IF ParseMitmproxyFlow(flows[f]) # <<>>
       THEN /\ emitted' = [emitted EXCEPT ![f] =
                              Append(@, "response") \o [i \in 1..Len(alerts) |-> "alert"]]
            /\ flow_alerts' = [flow_alerts EXCEPT ![f] = alerts]
       ELSE /\ emitted' = [emitted EXCEPT ![f] = Append(@, "error")]
            /\ UNCHANGED flow_alerts
    /\ flows' = [flows EXCEPT ![f].phase = "done"]
    /\ UNCHANGED <<block_list, category_blocks>>
    /\ UNCHANGED command
    /\ UNCHANGED <<keyword_alerts, block_iter>>
    /\ UNCHANGED notProxy

\* TrafficInterceptor.error: mitmproxy calls it for a killed flow and for a flow
\* whose upstream connection fails
ErrorHook(f) ==
    /\ ~HookRunning
    /\ flows[f].phase \in {"killed", "requested"}
    /\ emitted' = [emitted EXCEPT ![f] = Append(@, "error")]
    /\ flows' = [flows EXCEPT ![f].phase = "done"]
    /\ UNCHANGED <<block_list, category_blocks, active_flows>>
    /\ UNCHANGED command
    /\ UNCHANGED <<keyword_alerts, flow_alerts, block_iter>>
    /\ UNCHANGED notProxy

\* the policy the configuration commands change
ProxyPolicy == [block_list |-> block_list, category_blocks |-> category_blocks]

\* output_json({"type": "config_update", "action": action, ...})
ConfigUpdate(action, arg) == [type |-> "config_update", action |-> action, arg |-> arg]

\* output_json({"type": "error", "error": "Unknown category: ..."})
UnknownCategoryError(arg) == [type |-> "error", action |-> "", arg |-> arg]

\* a configuration command is taken from the control stream and handled: its
\* lines of output and the policy it found are kept until the next command
Command(action, arg, output) ==
    command' = <<[action |-> action, arg |-> arg, output |-> output,
                  before |-> ProxyPolicy]>>

\* TransparentProxy.add_to_blocklist
AddToBlocklist(d) ==
    /\ block_list' = block_list \cup {StrLower(d)}
    /\ Command("add_block", d, <<ConfigUpdate("add_block", d)>>)
    /\ UNCHANGED <<category_blocks, active_flows, flows, emitted>>
    /\ UNCHANGED <<keyword_alerts, flow_alerts, block_iter>>
    /\ UNCHANGED notProxy

\* TransparentProxy.remove_from_blocklist
RemoveFromBlocklist(d) ==
    /\ block_list' = block_list \ {StrLower(d)}
    /\ Command("remove_block", d, <<ConfigUpdate("remove_block", d)>>)
    /\ UNCHANGED <<category_blocks, active_flows, flows, emitted>>
    /\ UNCHANGED <<keyword_alerts, flow_alerts, block_iter>>
    /\ UNCHANGED notProxy

\* TransparentProxy.block_category
ProxyBlockCategory(c) ==
    /\ IF c \in TrafficCategoryValues
       THEN /\ category_blocks' = category_blocks \cup {c}
            /\ Command("block_category", c, <<ConfigUpdate("block_category", c)>>)
       ELSE /\ category_blocks' = category_blocks
            /\ Command("block_category", c, <<UnknownCategoryError(c)>>)
    /\ UNCHANGED <<block_list, active_flows, flows, emitted>>
    /\ UNCHANGED <<keyword_alerts, flow_alerts, block_iter>>
    /\ UNCHANGED notProxy

\* TransparentProxy.unblock_category: the ValueError is passed over in silence
ProxyUnblockCategory(c) ==
    /\ IF c \in TrafficCategoryValues
       THEN /\ category_blocks' = category_blocks \ {c}
            /\ Command("unblock_category", c, <<ConfigUpdate("unblock_category", c)>>)
       ELSE /\ category_blocks' = category_blocks
            /\ Command("unblock_category", c, <<>>)
    /\ UNCHANGED <<block_list, active_flows, flows, emitted>>
    /\ UNCHANGED <<keyword_alerts, flow_alerts, block_iter>>
    /\ UNCHANGED notProxy

\* the keyword is an entry of the list: Python's `keyword in list`
InList(k, l) == \E i \in 1..Len(l) : l[i] = k

\* list.remove(k): the first entry equal to k goes
ListRemove(l, k) ==
    LET i == CHOOSE j \in 1..Len(l) : l[j] = k /\ \A h \in 1..(j - 1) : l[h] # k IN
    [h \in 1..(Len(l) - 1) |-> IF h < i THEN l[h] ELSE l[h + 1]]

\* (variant: the test is made on the lower-case form that is stored)
AddKeywordAlert_LowerTest(k) ==
    /\ Len(keyword_alerts) < MaxKeywordAlerts
    /\ keyword_alerts' = IF ~InList(StrLower(k), keyword_alerts)
                         THEN Append(keyword_alerts, StrLower(k)) ELSE keyword_alerts
    /\ Command("add_keyword", k, <<ConfigUpdate("add_keyword", k)>>)
    /\ UNCHANGED <<block_list, category_blocks, active_flows, flows, emitted, flow_alerts>>
    /\ UNCHANGED block_iter
    /\ UNCHANGED notProxy

\* TransparentProxy.add_keyword_alert: the keyword as given is looked up, its
\* lower-case form is appended
AddKeywordAlert(k) ==
    /\ Len(keyword_alerts) < MaxKeywordAlerts
    /\ keyword_alerts' = IF ~InList(k, keyword_alerts)
                         THEN Append(keyword_alerts, StrLower(k)) ELSE keyword_alerts
    /\ Command("add_keyword", k, <<ConfigUpdate("add_keyword", k)>>)
    /\ UNCHANGED <<block_list, category_blocks, active_flows, flows, emitted, flow_alerts>>
    /\ UNCHANGED block_iter
    /\ UNCHANGED notProxy

\* TransparentProxy.remove_keyword_alert
RemoveKeywordAlert(k) ==
    LET keyword == StrLower(k) IN
    /\ keyword_alerts' = IF InList(keyword, keyword_alerts)
                         THEN ListRemove(keyword_alerts, keyword) ELSE keyword_alerts
    /\ Command("remove_keyword", k, <<ConfigUpdate("remove_keyword", keyword)>>)
    /\ UNCHANGED <<block_list, category_blocks, active_flows, flows, emitted, flow_alerts>>
    /\ UNCHANGED block_iter
    /\ UNCHANGED notProxy

ProxyNext ==
    \/ \E f \in FlowIds, a \in FlowArgs : NewFlow(f, a)
    \/ \E f \in FlowIds : RequestHook(f)
    \/ \E f \in FlowIds : RequestNext(f)
    \/ \E f \in FlowIds : Forward(f)
    \/ \E f \in FlowIds : ResponseHook(f)
    \/ \E f \in FlowIds : ErrorHook(f)
    \/ \E d \in BlocklistArgs : AddToBlocklist(d)
    \/ \E d \in BlocklistArgs : RemoveFromBlocklist(d)
    \/ \E c \in ProxyCategoryArgs : ProxyBlockCategory(c)
    \/ \E c \in ProxyCategoryArgs : ProxyUnblockCategory(c)
    \/ \E k \in ProxyKeywordArgs : AddKeywordAlert(k)
    \/ \E k \in ProxyKeywordArgs : RemoveKeywordAlert(k)

(***************************************************************************)
(* Properties of TrafficInterceptor                                        *)
(***************************************************************************)
\* the number of events of a type among the first n events of a flow
CountEvents(f, type, n) == Cardinality({k \in 1..n : emitted[f][k] = type})

\* C9: every response event emitted for a flow id is preceded by exactly one
\* request event with the same flow id.
C9_ResponseAfterOneRequest ==
    \A f \in FlowIds : \A k \in 1..Len(emitted[f]) :
        emitted[f][k] = "response" => CountEvents(f, "request", k - 1) = 1

\* C9 witness: both flows have been through the request and the response hook,
\* and each has its request event followed by its response event.
C9_Witness ==
    \A f \in FlowIds : emitted[f] = <<"request", "response">>

\* the request hook blocked the flow
Blocked(f) == flows[f].killed

\* C10: when a request matches the block list or a blocked category, the flow is
\* answered locally with a synthesized 403 and is never forwarded upstream, and a
\* blocked event, and no request or response event, is emitted for it.
C10_BlockedAnsweredLocally ==
    \A f \in FlowIds :
        Blocked(f) =>
            /\ flows[f].response = <<403>>
            /\ ~flows[f].forwarded
            /\ CountEvents(f, "blocked", Len(emitted[f])) = 1
            /\ CountEvents(f, "request", Len(emitted[f])) = 0
            /\ CountEvents(f, "response", Len(emitted[f])) = 0

\* the flow is between its request hook and its end
InProgress(f) == flows[f].phase \in {"requested", "responded"}

\* C37: every entry added to active_flows is removed when its flow ends, by a
\* response or by an error: the table holds only flows still in progress.
C37_ActiveFlowsInProgress ==
    \A f \in active_flows : InProgress(f)

\* the response hook of flow f ran in this step
ResponseHandled(f) == flows[f].phase = "responded" /\ flows'[f].phase = "done"

\* the last configuration command removed keyword k, in whatever letter case
RemovedLast(k) ==
    /\ command # <<>>
    /\ command[1].action = "remove_keyword"
    /\ StrLower(command[1].arg) = StrLower(k)

\* the list holds no entry twice
NoDuplicates(l) == \A i, j \in 1..Len(l) : l[i] = l[j] => i = j

\* C40: for every keyword k in any letter case, after remove_keyword_alert(k) no
\* alert is raised for k, however often add_keyword_alert(k) was called before,
\* and the keyword-alert list never holds duplicates.
C40_RemovedKeywordSilent ==
    /\ [](NoDuplicates(keyword_alerts))
    /\ [][\A f \in FlowIds, k \in ProxyKeywordArgs :
              (ResponseHandled(f) /\ RemovedLast(k)) =>
                  ~InList(KeywordAlert("KEYWORD_URL", StrLower(k)), flow_alerts'[f])]_vars

(***************************************************************************)
(* Configuration commands of the proxy                                     *)
(***************************************************************************)
\* the last command was block_category or unblock_category with an id that is
\* no TrafficCategory
UnknownCategoryCommand ==
    /\ command # <<>>
    /\ command[1].action \in {"block_category", "unblock_category"}
    /\ command[1].arg \notin TrafficCategoryValues

\* C22: block_category and unblock_category called with an unknown category id
\* are rejected with an error event and leave the policy unchanged
C22_UnknownCategoryRejected ==
    UnknownCategoryCommand =>
        /\ command[1].output = <<UnknownCategoryError(command[1].arg)>>
        /\ ProxyPolicy = command[1].before

\* C15: once stop() has completed after a successful start(), the operating
\* system's IPv4-forwarding switch is what it was before the engine started.
C15_StopRestoresForwarding ==
    (ctl.pc = "idle" /\ ~running /\ lastStart = "ok") => ip_forward = forwardBefore

(***************************************************************************)
(* The operating system's routing switch, as start() finds it              *)
(***************************************************************************)
OsInit ==
    /\ ip_forward \in BOOLEAN
    /\ forwardBefore = ip_forward

(***************************************************************************)
(* dns/dns_blocker.py: DNSBlocker.  The interceptor reads copies of the    *)
(* packets on the interface (sniff with prn=_process_packet); the packets  *)
(* themselves travel on through the host, which routes them while the      *)
(* routing switch is on.                                                   *)
(***************************************************************************)
MaxQueries == 1
QuerySlots == 1..MaxQueries

Str_dot      == <<".">>
Str_star_dot == <<"*", ".">>
Str_a_ea_com_dot == Str_a_ea_com \o Str_dot
Str_EA_com_dot   == Str_EA_com \o Str_dot
Str_b_io_dot     == Str_b_io \o Str_dot
Str_star_ea_com  == <<"*", ".", "e", "a", ".", "c", "o", "m">>    \* '*.ea.com'
Str_a_ea_com_b_io_dot == Str_a_ea_com \o Str_dot \o Str_b_io \o Str_dot    \* 'a.ea.com.b.io.'

ClientIP   == "192.168.1.77"
ResolverIP == "8.8.8.8"
RedirectIP == "0.0.0.0"

\* opcodes of the DNS header: QUERY and STATUS
OpQuery  == 0
OpStatus == 2

BlockModes == {"nxdomain", "redirect", "drop"}

\* str.rstrip('.')
RECURSIVE RStripDots(_)
RStripDots(s) ==
    IF s # <<>> /\ s[Len(s)] = "." THEN RStripDots(SubSeq(s, 1, Len(s) - 1)) ELSE s

StrStartsWith(s, p) == Len(p) <= Len(s) /\ SubSeq(s, 1, Len(p)) = p

\* iter(s) of a set s: the iterator notes the size of the set; seen collects what
\* it has yielded; live: s is still the object the component's field names
SetIterator(q, s) ==
    [slot |-> q, used |-> Cardinality(s), orig |-> s, seen |-> {}, live |-> TRUE]

\* the set an iterator walks: the component's set, or the object it was made on
\* when the field has been given another object since
IterSet(it, current) == IF it.live THEN current ELSE it.orig

\* next(): RuntimeError('Set changed size during iteration') when the set's size
\* is not the one noted
IterRaises(it, current) == Cardinality(IterSet(it, current)) # it.used

\* next(): the entries it can yield, and whether it can be exhausted
IterYields(it, current) == IterSet(it, current) \ it.seen
IterEnds(it, current) == (it.orig \cap IterSet(it, current)) \subseteq it.seen

\* DNSBlocker.is_blocked, the test of one entry in its for loop
DomainBlockedBy(domain, blocked) ==
    IF StrEndsWith(domain, Str_dot \o blocked)
    THEN TRUE
    ELSE /\ StrStartsWith(blocked, Str_star_dot)
         /\ StrEndsWith(domain, SubSeq(blocked, 2, Len(blocked)))

\* DNSBlocker.is_blocked, when nothing changes the set while it runs
is_blocked(domain0) ==
    LET domain == RStripDots(StrLower(domain0)) IN
    IF domain \in dns_domains
    THEN TRUE
    ELSE \E blocked \in dns_domains : DomainBlockedBy(domain, blocked)

\* a DNS packet on the interface: the IP addresses and the DNS header fields
\* the interceptor reads, and what has happened to the packet so far (processed:
\* _process_packet has run on its copy; matched: is_blocked returned True for it
\* there; raised: _process_packet caught an exception and printed blocker_error;
\* forwarded: the host has routed it on)
DnsPacket(src, dst, id, opcode, qr, qd) ==
    [src |-> src, dst |-> dst, id |-> id, opcode |-> opcode, qr |-> qr, qd |-> qd,
     processed |-> FALSE, matched |-> FALSE, forwarded |-> FALSE, raised |-> FALSE]

NoPacket == [src |-> None, dst |-> None, id |-> 0, opcode |-> 0, qr |-> 0, qd |-> <<>>,
             processed |-> FALSE, matched |-> FALSE, forwarded |-> FALSE,
             raised |-> FALSE]

DnsPacketArgs ==
    { DnsPacket(ClientIP, ResolverIP, 4660, OpQuery, 0, <<Str_EA_com_dot>>),
      DnsPacket(ClientIP, ResolverIP, 4661, OpStatus, 0, <<Str_a_ea_com_dot>>),
      DnsPacket(ClientIP, ResolverIP, 4662, OpQuery, 0, <<Str_b_io_dot>>),
      DnsPacket(ResolverIP, ClientIP, 4663, OpQuery, 1, <<Str_EA_com_dot>>) }

DnsDomainArgs == {Str_EA_com}

\* scapy's DNS(...): the header fields not given keep their defaults, opcode = 0
DNS(id, qr, aa, rcode, qd, an) ==
    [id |-> id, qr |-> qr, opcode |-> 0, aa |-> aa, rcode |-> rcode, qd |-> qd, an |-> an]

\* DNSBlocker._create_nxdomain_response
NxdomainResponse(packet) ==
    [dst |-> packet.src, src |-> packet.dst,
     dns |-> DNS(packet.id, 1, 1, 3, packet.qd, <<>>)]

\* DNSBlocker._create_redirect_response
RedirectResponse(packet) ==
    [dst |-> packet.src, src |-> packet.dst,
     dns |-> DNS(packet.id, 1, 1, 0, packet.qd,
                 <<[rrname |-> packet.qd[1], type |-> "A", ttl |-> 300,
                    rdata |-> RedirectIP]>>)]

\* the blocklists the two DNS components are constructed with
BlocklistLists == SUBSET {Str_EA_com, Str_star_ea_com}

DnsInit ==
    /\ \E list \in BlocklistLists : dns_domains = {StrLower(d) : d \in list}
    /\ block_mode \in BlockModes
    /\ blocked_log = <<>>
    /\ dns_packets = [q \in QuerySlots |-> NoPacket]
    /\ dns_sent = [q \in QuerySlots |-> <<>>]
    /\ dns_iter = <<>>

\* a device's DNS packet reaches the interface
PacketArrives(q, packet) ==
    /\ dns_packets[q] = NoPacket
    /\ \A p \in 1..(q - 1) : dns_packets[p] # NoPacket
    /\ dns_packets' = [dns_packets EXCEPT ![q] = packet]
    /\ UNCHANGED <<dns_domains, block_mode, blocked_log, dns_sent, dns_iter>>
    /\ UNCHANGED notDns

\* the host routes the packet on towards its destination: this happens for every
\* packet while the routing switch is on, the interceptor only reads copies
KernelForward(q) ==
    /\ dns_packets[q] # NoPacket
    /\ ~dns_packets[q].forwarded
    /\ ip_forward
    /\ dns_packets' = [dns_packets EXCEPT ![q].forwarded = TRUE]
    /\ UNCHANGED <<dns_domains, block_mode, blocked_log, dns_sent, dns_iter>>
    /\ UNCHANGED notDns

\* _process_packet once is_blocked has returned True: the entry of blocked_log
\* is appended (and printed); the reply is not sent yet
BlockQuery(q) ==
    LET packet == dns_packets[q]
        domain == RStripDots(packet.qd[1])
    IN
    /\ dns_packets' = [dns_packets EXCEPT ![q].matched = TRUE]
    /\ blocked_log' = Append(blocked_log,
                         [device_ip |-> packet.src, domain |-> domain,
                          action |-> block_mode])
    /\ UNCHANGED dns_sent

\* the sniffing thread is between the log entry and the reply of a blocked query
Replying(q) == dns_packets[q].matched /\ ~dns_packets[q].processed

\* _process_packet, "Send response based on mode": the reply the block mode
\* calls for is sent, in drop mode nothing; _process_packet returns
SendResponse(q) ==
    LET packet == dns_packets[q] IN
    /\ Replying(q)
    /\ dns_packets' = [dns_packets EXCEPT ![q].processed = TRUE]
    /\ dns_sent' =
         IF block_mode = "nxdomain"
         THEN [dns_sent EXCEPT ![q] = Append(@, NxdomainResponse(packet))]
         ELSE IF block_mode = "redirect"
         THEN [dns_sent EXCEPT ![q] = Append(@, RedirectResponse(packet))]
         ELSE dns_sent
    /\ UNCHANGED <<dns_domains, block_mode, blocked_log, dns_iter>>
    /\ UNCHANGED notDns

\* DNSBlocker._process_packet, up to the for statement of is_blocked: a packet
\* that is no query is passed over, a name that is an entry of the set is blocked,
\* for another name the iterator over blocked_domains is made
ProcessPacket(q) ==
    LET packet == dns_packets[q] IN
    /\ dns_iter = <<>>
    /\ \A p \in QuerySlots : ~Replying(p)
    /\ packet # NoPacket
    /\ ~packet.processed
    /\ IF packet.qr # 0 \/ packet.qd = <<>>
       THEN /\ dns_packets' = [dns_packets EXCEPT ![q].processed = TRUE]
            /\ UNCHANGED <<blocked_log, dns_sent, dns_iter>>
       ELSE IF RStripDots(StrLower(RStripDots(packet.qd[1]))) \in dns_domains
       THEN /\ BlockQuery(q)
            /\ UNCHANGED dns_iter
       ELSE /\ dns_iter' = <<SetIterator(q, dns_domains)>>
            /\ UNCHANGED <<dns_packets, blocked_log, dns_sent>>
    /\ UNCHANGED <<dns_domains, block_mode>>
    /\ UNCHANGED notDns

\* one turn of `for blocked in self.blocked_domains` and what follows it in
\* _process_packet.  add_domain and remove_domain run on another thread: when
\* the set's size is no longer the one the iterator noted, next() raises
\* RuntimeError, which _process_packet catches: blocker_error is printed, nothing
\* is logged and nothing is sent.
ProcessNext(q, ends) ==
    /\ dns_iter # <<>>
    /\ dns_iter[1].slot = q
    /\ LET it == dns_iter[1]
           domain == RStripDots(StrLower(RStripDots(dns_packets[q].qd[1]))) IN
       IF IterRaises(it, dns_domains)
       THEN /\ ~ends
            /\ dns_packets' = [dns_packets EXCEPT ![q].processed = TRUE,
                                                  ![q].raised = TRUE]
            /\ dns_iter' = <<>>
            /\ UNCHANGED <<blocked_log, dns_sent>>
       ELSE IF ends
       THEN /\ IterEnds(it, dns_domains)
            /\ dns_packets' = [dns_packets EXCEPT ![q].processed = TRUE]
            /\ dns_iter' = <<>>
            /\ UNCHANGED <<blocked_log, dns_sent>>
       ELSE \E blocked \in IterYields(it, dns_domains) :
               IF DomainBlockedBy(domain, blocked)
               THEN /\ BlockQuery(q)
                    /\ dns_iter' = <<>>
               ELSE /\ dns_iter' = <<[it EXCEPT !.seen = @ \cup {blocked}]>>
                    /\ UNCHANGED <<dns_packets, blocked_log, dns_sent>>
    /\ UNCHANGED <<dns_domains, block_mode>>
    /\ UNCHANGED notDns

\* DNSBlocker.add_domain
DnsAddDomain(domain) ==
    /\ dns_domains' = dns_domains \cup {StrLower(domain)}
    /\ UNCHANGED <<block_mode, blocked_log, dns_packets, dns_sent, dns_iter>>
    /\ UNCHANGED notDns

\* DNSBlocker.remove_domain
DnsRemoveDomain(domain) ==
    /\ dns_domains' = dns_domains \ {StrLower(domain)}
    /\ UNCHANGED <<block_mode, blocked_log, dns_packets, dns_sent, dns_iter>>
    /\ UNCHANGED notDns

DnsNext ==
    \/ \E q \in QuerySlots, packet \in DnsPacketArgs : PacketArrives(q, packet)
    \/ \E q \in QuerySlots : KernelForward(q)
    \/ \E q \in QuerySlots : ProcessPacket(q)
    \/ \E q \in QuerySlots, ends \in BOOLEAN : ProcessNext(q, ends)
    \/ \E q \in QuerySlots : SendResponse(q)
    \/ \E domain \in DnsDomainArgs : DnsAddDomain(domain)
    \/ \E domain \in DnsDomainArgs : DnsRemoveDomain(domain)

(***************************************************************************)
(* DNSCapture: the passive observer of the same packets                    *)
(***************************************************************************)
\* DNSCapture._is_blocked, the test of one entry in its for loop
CaptureBlockedBy(domain_lower, blocked) ==
    LET blocked_lower == StrLower(blocked) IN
    IF domain_lower = blocked_lower THEN TRUE
    ELSE IF StrEndsWith(domain_lower, Str_dot \o blocked_lower) THEN TRUE
    ELSE /\ \E k \in 1..Len(blocked_lower) : blocked_lower[k] = "*"
         /\ StrContains(domain_lower, SelectSeq(blocked_lower, LAMBDA c : c # "*"))

\* DNSCapture._is_blocked, when nothing changes the set while it runs
CaptureIsBlocked(domain) ==
    LET domain_lower == RStripDots(StrLower(domain)) IN
    \E blocked \in capture_blocklist : CaptureBlockedBy(domain_lower, blocked)

\* DNSQuery, the fields used here; NoQuery: the packet was passed over
DNSQuery(query_name, blocked) ==
    [recorded |-> TRUE, query_name |-> query_name, blocked |-> blocked]
NoQuery == [recorded |-> FALSE, query_name |-> <<>>, blocked |-> FALSE]

\* DNSCapture.__init__(interface, callback, blocklist)
CaptureInit ==
    /\ capture_blocklist \in BlocklistLists
    /\ captured = [q \in QuerySlots |-> <<>>]
    /\ capture_seen = [q \in QuerySlots |-> {}]
    /\ capture_iter = <<>>

\* DNSCapture._process_packet, on its copy of the packet in slot q, up to the
\* for statement of _is_blocked, where the iterator over self.blocklist is made;
\* the packets here carry no answer section, so a response is passed over
CaptureProcessPacket(q) ==
    LET packet == dns_packets[q] IN
    /\ capture_iter = <<>>
    /\ packet # NoPacket
    /\ captured[q] = <<>>
    /\ IF packet.qr = 0 /\ packet.qd # <<>>
       THEN /\ capture_iter' = <<SetIterator(q, capture_blocklist)>>
            /\ UNCHANGED captured
       ELSE /\ captured' = [captured EXCEPT ![q] = <<NoQuery>>]
            /\ UNCHANGED capture_iter
    /\ capture_seen' = [capture_seen EXCEPT ![q] = capture_blocklist]
    /\ UNCHANGED capture_blocklist
    /\ UNCHANGED notCapture

\* one turn of `for blocked in self.blocklist` and what follows it in
\* _process_packet: the DNSQuery is made with what _is_blocked returned and passed
\* to the callback.  add_to_blocklist and remove_from_blocklist run on another
\* thread: when the set's size is no longer the one the iterator noted, next()
\* raises RuntimeError, which _process_packet catches: dns_parse_error is
\* printed, no DNSQuery is made and the callback is not called.
CaptureNext(q, ends) ==
    /\ capture_iter # <<>>
    /\ capture_iter[1].slot = q
    /\ LET it == capture_iter[1]
           query_name == RStripDots(dns_packets[q].qd[1])
           domain_lower == RStripDots(StrLower(query_name)) IN
       IF IterRaises(it, capture_blocklist)
       THEN /\ ~ends
            /\ captured' = [captured EXCEPT ![q] = <<NoQuery>>]
            /\ capture_iter' = <<>>
       ELSE IF ends
       THEN /\ IterEnds(it, capture_blocklist)
            /\ captured' = [captured EXCEPT ![q] = <<DNSQuery(query_name, FALSE)>>]
            /\ capture_iter' = <<>>
       ELSE \E blocked \in IterYields(it, capture_blocklist) :
               IF CaptureBlockedBy(domain_lower, blocked)
               THEN /\ captured' = [captured EXCEPT ![q] = <<DNSQuery(query_name, TRUE)>>]
                    /\ capture_iter' = <<>>
               ELSE /\ capture_iter' = <<[it EXCEPT !.seen = @ \cup {blocked}]>>
                    /\ UNCHANGED captured
    /\ UNCHANGED <<capture_blocklist, capture_seen>>
    /\ UNCHANGED notCapture

\* DNSCapture.add_to_blocklist
CaptureAddToBlocklist(domain) ==
    /\ capture_blocklist' = capture_blocklist \cup {StrLower(domain)}
    /\ UNCHANGED <<captured, capture_seen, capture_iter>>
    /\ UNCHANGED notCapture

\* DNSCapture.remove_from_blocklist
CaptureRemoveFromBlocklist(domain) ==
    /\ capture_blocklist' = capture_blocklist \ {StrLower(domain)}
    /\ UNCHANGED <<captured, capture_seen, capture_iter>>
    /\ UNCHANGED notCapture

\* DNSCapture.set_blocklist: self.blocklist is given a new set; a for loop under
\* way goes on over the set it was started on, which nothing changes any more
CaptureSetBlocklist(domains) ==
    /\ capture_blocklist' = {StrLower(d) : d \in domains}
    /\ capture_iter' =
         IF capture_iter = <<>>
         THEN capture_iter
         ELSE LET it == capture_iter[1] IN
              <<[it EXCEPT !.orig = IterSet(it, capture_blocklist), !.live = FALSE]>>
    /\ UNCHANGED <<captured, capture_seen>>
    /\ UNCHANGED notCapture

\* the domains the capture's commands name
CaptureDomainArgs == {Str_EA_com, Str_star_ea_com}

\* the packets the two matchers are compared on
MatcherPacketArgs ==
    { DnsPacket(ClientIP, ResolverIP, 4660, OpQuery, 0, <<Str_EA_com_dot>>),
      DnsPacket(ClientIP, ResolverIP, 4661, OpQuery, 0, <<Str_a_ea_com_dot>>),
      DnsPacket(ClientIP, ResolverIP, 4662, OpQuery, 0, <<Str_nea_com>>),
      DnsPacket(ClientIP, ResolverIP, 4663, OpQuery, 0, <<Str_a_ea_com_b_io_dot>>) }

(***************************************************************************)
(* Claims about the DNS interceptor                                        *)
(***************************************************************************)
\* the packet in slot q is a query whose name the interceptor found on its blocklist
MatchedQuery(q) == dns_packets[q].processed /\ dns_packets[q].matched

\* C11: a DNS query whose name matched the blocklist is never forwarded to the
\* upstream resolver, whichever block mode is configured.
C11_MatchedQueryNeverForwarded ==
    \A q \in QuerySlots :
        MatchedQuery(q) => ~dns_packets[q].forwarded

\* C12: in nxdomain mode a query that matches the blocklist gets exactly one reply
\* from the interceptor, an NXDOMAIN carrying the query's transaction id and opcode
\* and echoing its question; a query that does not match gets nothing from it.
C12_NxdomainReplyMirrorsQuery ==
    \A q \in QuerySlots :
        (block_mode = "nxdomain" /\ dns_packets[q].processed /\ dns_packets[q].qr = 0
         /\ dns_packets[q].qd # <<>>)
        => IF MatchedQuery(q)
           THEN /\ Len(dns_sent[q]) = 1
                /\ dns_sent[q][1].dst = dns_packets[q].src
                /\ dns_sent[q][1].dns.qr = 1
                /\ dns_sent[q][1].dns.rcode = 3
                /\ dns_sent[q][1].dns.id = dns_packets[q].id
                /\ dns_sent[q][1].dns.opcode = dns_packets[q].opcode
                /\ dns_sent[q][1].dns.qd = dns_packets[q].qd
           ELSE dns_sent[q] = <<>>

\* the one rule: the name equals the entry case-insensitively, or is a strict
\* subdomain of it, or the entry is a wildcard *.suffix and the name ends with
\* .suffix
MatchesEntry(name, entry) ==
    LET n == RStripDots(StrLower(name))
        e == StrLower(entry) IN
    \/ n = e
    \/ StrEndsWith(n, Str_dot \o e)
    \/ StrStartsWith(e, Str_star_dot) /\ StrEndsWith(n, SubSeq(e, 2, Len(e)))

\* both components have looked at the query in slot q
BothMatched(q) ==
    /\ dns_packets[q].processed
    /\ captured[q] # <<>> /\ captured[q][1].recorded

\* the capture looked at the query in slot q with the blocklist the blocker holds
SameBlocklist(q) == {StrLower(d) : d \in capture_seen[q]} = dns_domains

\* C26: both DNS matchers follow one rule (equal case-insensitively, strict
\* subdomain, or wildcard *.suffix the name ends with), so for the same name and
\* blocklist a query is recorded as blocked exactly when it is actually blocked
C26_MatchersAgree ==
    \A q \in QuerySlots :
        (BothMatched(q) /\ SameBlocklist(q)) =>
            LET byRule == \E entry \in capture_seen[q] :
                              MatchesEntry(dns_packets[q].qd[1], entry) IN
            /\ dns_packets[q].matched = byRule
            /\ captured[q][1].blocked = byRule

(***************************************************************************)
(* arp/device_scanner.py: DeviceScanner, and database/db_manager.py: the   *)
(* devices table                                                           *)
(***************************************************************************)
\* the hosts that answer ARP requests, and the addresses they answer with
ScanIPs  == TargetIPs
ScanMacs == {TrueMac(ip) : ip \in TargetIPs \cup {GatewayIP}}

\* what srp() returns: for each answering IP the hwsrc of its reply; a host holds
\* one IP at a time, and may hold a different one at the next sweep
ScanResults ==
    {result \in UNION {[ips -> ScanMacs] : ips \in SUBSET ScanIPs} :
        \A i, j \in DOMAIN result : result[i] = result[j] => i = j}

\* NetworkDevice (hostname, vendor and the timestamps play no part in identity)
NetworkDevice(ip, mac) ==
    [ip |-> ip, mac |-> mac, is_gateway |-> ip = GatewayIP, is_self |-> FALSE]

\* Device rows offered to add_device: id, mac_address, ip_address
DeviceArgs ==
    {[id |-> id, mac_address |-> MacUpper(mac), ip_address |-> "192.168.1.77"] :
        id \in {"d1", "d2"}, mac \in ScanMacs}

\* the threads that run scan() on the one DeviceScanner: the thread of
\* continuous_scan, and the caller of scan()
MaxScanners == 2
Scanners == 1..MaxScanners

\* a thread outside scan(): no replies left to go through, no lookup under way
NoSweep == [result |-> [ip \in {} |-> None], lookup |-> <<>>]

DevicesInit ==
    /\ scan_devices = [ip \in {} |-> NetworkDevice(ip, None)]
    /\ observed = {}
    /\ db_devices = {}
    /\ scan_todo = [s \in Scanners |-> NoSweep]

\* DeviceScanner.scan, up to the for loop: srp() returns the replies of one sweep
Scan(s, result) ==
    /\ scan_todo[s] = NoSweep
    /\ scan_todo' = [scan_todo EXCEPT ![s].result = result]
    /\ UNCHANGED <<scan_devices, observed, db_devices>>
    /\ UNCHANGED notDevices

\* one turn of `for sent, received in result`, up to the registry's answer to
\* `ip in self.devices`: a reply from an IP the registry holds only refreshes
\* last_seen; for another one the thread goes to _get_hostname, where it waits for
\* the resolver
ScanReply(s, ip) ==
    LET sweep == scan_todo[s]
        rest == [i \in DOMAIN sweep.result \ {ip} |-> sweep.result[i]] IN
    /\ sweep.lookup = <<>>
    /\ ip \in DOMAIN sweep.result
    /\ observed' = observed \cup {MacUpper(sweep.result[ip])}
    /\ scan_todo' = [scan_todo EXCEPT ![s] =
          [result |-> rest,
           lookup |-> IF ip \in DOMAIN scan_devices
                      THEN <<>>
                      ELSE <<[ip |-> ip, mac |-> MacUpper(sweep.result[ip])]>>]]
    /\ UNCHANGED <<scan_devices, db_devices>>
    /\ UNCHANGED notDevices

\* the rest of the turn, once _get_hostname has returned: self.devices[ip] =
\* device, whatever the registry holds under ip by now
ScanStore(s) ==
    LET sweep == scan_todo[s] IN
    /\ sweep.lookup # <<>>
    /\ LET ip == sweep.lookup[1].ip IN
       scan_devices' =
         [i \in DOMAIN scan_devices \cup {ip} |->
             IF i = ip
             THEN NetworkDevice(ip, sweep.lookup[1].mac)
             ELSE scan_devices[i]]
    /\ scan_todo' = [scan_todo EXCEPT ![s].lookup = <<>>]
    /\ UNCHANGED <<observed, db_devices>>
    /\ UNCHANGED notDevices

\* DatabaseManager.add_device: INSERT OR REPLACE on a table whose id is the primary
\* key and whose mac_address is UNIQUE: the rows in conflict on either are deleted
DbAddDevice(device) ==
    /\ db_devices' =
         {row \in db_devices :
             row.id # device.id /\ row.mac_address # device.mac_address}
         \cup {device}
    /\ UNCHANGED <<scan_devices, observed, scan_todo>>
    /\ UNCHANGED notDevices

DevicesNext ==
    \/ \E s \in Scanners, result \in ScanResults : Scan(s, result)
    \/ \E s \in Scanners, ip \in ScanIPs : ScanReply(s, ip)
    \/ \E s \in Scanners : ScanStore(s)
    \/ \E device \in DeviceArgs : DbAddDevice(device)

\* the records of the scanner's registry that carry the address a
ScanRecordsWith(a) == {ip \in DOMAIN scan_devices : scan_devices[ip].mac = a}

\* C13: after any sequence of scans and upserts, every link-layer address seen in
\* a scan has exactly one record in the scanner's registry, and no address has
\* two rows in the devices table.
C13_OneRecordPerAddress ==
    (\A s \in Scanners : scan_todo[s] = NoSweep) =>
        /\ \A a \in observed : Cardinality(ScanRecordsWith(a)) = 1
        /\ \A r1, r2 \in db_devices : r1.mac_address = r2.mac_address => r1 = r2

(***************************************************************************)
(* main.py: NetworkMonitor.  Its collaborators (database, alert engine,    *)
(* notifier, the capture components) appear only through what their calls  *)
(* do to the monitor: return, or raise.                                    *)
(***************************************************************************)
MaxEvents == 1           \* bound on the records the handlers are called with
MaxStops == 2            \* bound on the stop() calls a caller makes
MaxSignals == 1          \* bound on the signals delivered to run()

Modes == {"full", "dns-only", "proxy-only", "arp-only"}

HasDns(mode)   == mode \in {"full", "dns-only"}
HasArp(mode)   == mode \in {"full", "arp-only"}
HasProxy(mode) == mode \in {"full", "proxy-only"}

\* NetworkMonitor.__init__: no component object yet.  pc is the place of the main
\* thread in start(), stop() and run(); after_stop is what the main thread does
\* when the stop() under way returns.  arp_thread and proxy_thread are what has
\* become of ARPGateway.start() and TransparentProxy.start() on their threads:
\* arp_thread is pending until ARPGateway.start() has passed its event to the
\* callback, and stopped once ARPGateway.stop() has passed its own; arp_start
\* tells how far a pending start() has come.
\* stops counts the stop() calls of a caller and the signals delivered.
\*
\* main.py passes its components arguments that not every class under src/ takes
\* (DNSCapture has no `blocker`, TransparentProxy no `port`, `cert_dir` or
\* `callback`), and IPForwarding is not defined under src/: a constructor call is
\* a step that succeeds or raises, and what start() and stop() do with either
\* outcome is what is modelled.
MonitorInit ==
    /\ mon = [pc |-> "new", via_run |-> FALSE, is_running |-> FALSE,
              mode |-> "full", success |-> TRUE,
              dns_capture |-> "none", arp_gateway |-> "none", https_proxy |-> "none",
              ip_forwarding |-> "none", start_order |-> <<>>, stop_order |-> <<>>,
              arp_thread |-> "none", proxy_thread |-> "none", arp_start |-> "none",
              joined |-> FALSE, after_stop |-> <<>>, stops |-> 0]
    /\ stream = <<>>
    /\ handled = 0
    /\ alerts_due = 0

\* NetworkMonitor.emit: the event is printed to stdout and flushed, at once
emit(s, event_type) == Append(s, event_type)

\* NetworkMonitor.start, the order of its steps: the stealth set-up in the modes
\* with ARP, then "success = success and self.start_x()", which skips every
\* component after the first that fails
AfterArp(mode, success) ==
    IF success /\ HasProxy(mode) THEN "start_https_proxy" ELSE "start_finish"
AfterDns(mode, success) ==
    IF success /\ HasArp(mode) THEN "arp_forwarding" ELSE AfterArp(mode, success)
AfterStealth(mode) ==
    IF HasDns(mode) THEN "start_dns_capture" ELSE AfterDns(mode, TRUE)
AfterNetwork(mode) ==
    IF HasArp(mode) THEN "setup_stealth" ELSE AfterStealth(mode)

StartPcs == {"setup_network", "setup_stealth", "start_dns_capture", "dns_status",
             "arp_forwarding", "arp_scan", "arp_gateway", "arp_status",
             "start_https_proxy", "proxy_generate", "proxy_make", "proxy_status",
             "start_finish", "start_started"}

\* the places of the main thread inside stop()
StopPcs == {"stop_dns", "stop_arp", "stop_arp_callback", "stop_proxy",
            "stop_forwarding", "stop_join", "stop_status", "stop_stopped"}

\* where start() leaves the main thread when it returns False: back at the
\* caller, or, in run(), at sys.exit(1)
StartReturnsFalse(m) == IF m.via_run THEN "exit1" ELSE "failed"

\* NetworkMonitor.start up to setup_network
StartBegin(mode, via_run) ==
    /\ mon.pc = "new"
    /\ mon' = [mon EXCEPT !.pc = "setup_network", !.mode = mode, !.via_run = via_run]
    /\ stream' = emit(stream, "status")
    /\ UNCHANGED <<handled, alerts_due>>

\* a caller's monitor.start(mode)
StartCall(mode) ==
    /\ StartBegin(mode, FALSE)
    /\ UNCHANGED notMonitor

\* NetworkMonitor.run up to start(): "if not self.start(mode): sys.exit(1)" comes
\* before the try ... finally that calls stop()
Run(mode) ==
    /\ StartBegin(mode, TRUE)
    /\ UNCHANGED notMonitor

\* NetworkMonitor.setup_network and the test of its result in start(): the
\* interface and the gateway are found, or an error is printed and start()
\* returns False at once
SetupNetwork(found) ==
    /\ mon.pc = "setup_network"
    /\ mon' = [mon EXCEPT !.pc = IF found THEN AfterNetwork(mon.mode)
                                 ELSE StartReturnsFalse(mon)]
    /\ stream' = emit(stream, IF found THEN "status" ELSE "error")
    /\ UNCHANGED <<handled, alerts_due>>
    /\ UNCHANGED notMonitor

\* the configuration setup_stealth reads and what its collaborators answer:
\* stealth.enabled, whether the device profile is found, stealth.change_mac,
\* stealth.change_hostname, whether the hostname change succeeds
StealthSettings ==
    [enabled : BOOLEAN, profile : BOOLEAN, change_mac : BOOLEAN,
     change_hostname : BOOLEAN, hostname_changed : BOOLEAN]

\* NetworkMonitor.setup_stealth, the events it prints.  MACChanger() is called
\* without the interface its __init__ requires: the TypeError is caught by the
\* except clause, which prints the error and skips the hostname.
StealthEvents(cfg) ==
    IF ~cfg.enabled THEN <<"status">>
    ELSE IF ~cfg.profile THEN <<"error">>
    ELSE IF cfg.change_mac THEN <<"error">>
    ELSE IF cfg.change_hostname
         THEN (IF cfg.hostname_changed THEN <<"status">> ELSE <<"error">>)
         ELSE <<>>

\* NetworkMonitor.setup_stealth as start() calls it: the result is not read
SetupStealth(cfg) ==
    /\ mon.pc = "setup_stealth"
    /\ mon' = [mon EXCEPT !.pc = AfterStealth(mon.mode)]
    /\ stream' = stream \o StealthEvents(cfg)
    /\ UNCHANGED <<handled, alerts_due>>
    /\ UNCHANGED notMonitor

\* NetworkMonitor.start_dns_capture up to thread.start(): the capture object is
\* made and its thread started, or an exception is caught and printed
StartDnsCapture(ok) ==
    /\ mon.pc = "start_dns_capture"
    /\ mon' = [mon EXCEPT !.pc = IF ok THEN "dns_status" ELSE AfterDns(mon.mode, FALSE),
                          !.success = ok,
                          !.dns_capture = IF ok THEN "started" ELSE @,
                          !.start_order = IF ok THEN Append(@, "dns_capture") ELSE @]
    /\ stream' = IF ok THEN stream ELSE emit(stream, "error")
    /\ UNCHANGED <<handled, alerts_due>>
    /\ UNCHANGED notMonitor

\* NetworkMonitor.start_dns_capture after thread.start(), with the capture
\* thread under way: emit_status("DNS capture started"), return True
StartDnsStatus ==
    /\ mon.pc = "dns_status"
    /\ mon' = [mon EXCEPT !.pc = AfterDns(mon.mode, TRUE)]
    /\ stream' = emit(stream, "status")
    /\ UNCHANGED <<handled, alerts_due>>
    /\ UNCHANGED notMonitor

\* NetworkMonitor.start_arp_gateway, the failure of one of its steps: the except
\* clause prints the error, what the earlier steps did stays
ArpGatewayFailed(m) ==
    [m EXCEPT !.pc = AfterArp(m.mode, FALSE), !.success = FALSE]

\* NetworkMonitor.start_arp_gateway, IPForwarding().enable().  The class is not
\* defined under src/: enable() and disable() switch the routing of the host, as
\* enable_ip_forwarding and disable_ip_forwarding of ip_forwarding.py do.
StartArpForwarding(ok) ==
    /\ mon.pc = "arp_forwarding"
    /\ mon' = IF ok
              THEN [mon EXCEPT !.pc = "arp_scan", !.ip_forwarding = "enabled",
                               !.start_order = Append(@, "ip_forwarding")]
              ELSE [ArpGatewayFailed(mon) EXCEPT !.ip_forwarding = "created"]
    /\ stream' = IF ok THEN stream ELSE emit(stream, "error")
    /\ ip_forward' = IF ok THEN TRUE ELSE ip_forward
    /\ UNCHANGED <<handled, alerts_due>>
    /\ UNCHANGED <<forwardBefore, notMonitorOs>>

\* NetworkMonitor.start_arp_gateway, DeviceScanner.scan(): the main thread waits
\* for the scan, then prints the number of devices found
StartArpScan(ok) ==
    /\ mon.pc = "arp_scan"
    /\ mon' = IF ok THEN [mon EXCEPT !.pc = "arp_gateway"] ELSE ArpGatewayFailed(mon)
    /\ stream' = emit(stream, IF ok THEN "status" ELSE "error")
    /\ UNCHANGED <<handled, alerts_due>>
    /\ UNCHANGED notMonitor

\* NetworkMonitor.start_arp_gateway, ARPGateway(...) and its thread, up to
\* thread.start()
StartArpGateway(ok) ==
    /\ mon.pc = "arp_gateway"
    /\ mon' = IF ok
              THEN [mon EXCEPT !.pc = "arp_status",
                               !.arp_gateway = "started", !.arp_thread = "pending",
                               !.start_order = Append(@, "arp_gateway")]
              ELSE ArpGatewayFailed(mon)
    /\ stream' = IF ok THEN stream ELSE emit(stream, "error")
    /\ UNCHANGED <<handled, alerts_due>>
    /\ UNCHANGED notMonitor

\* NetworkMonitor.start_arp_gateway after thread.start(), with the gateway's
\* thread under way: emit_status("ARP gateway started"), return True
StartArpStatus ==
    /\ mon.pc = "arp_status"
    /\ mon' = [mon EXCEPT !.pc = AfterArp(mon.mode, TRUE)]
    /\ stream' = emit(stream, "status")
    /\ UNCHANGED <<handled, alerts_due>>
    /\ UNCHANGED notMonitor

\* NetworkMonitor.start_https_proxy, the test for certs/ca-cert.pem: when the file
\* is not there, emit_status("Generating CA certificate...")
StartHttpsProxy(cert_exists) ==
    /\ mon.pc = "start_https_proxy"
    /\ mon' = [mon EXCEPT !.pc = IF cert_exists THEN "proxy_make" ELSE "proxy_generate"]
    /\ stream' = IF cert_exists THEN stream ELSE emit(stream, "status")
    /\ UNCHANGED <<handled, alerts_due>>
    /\ UNCHANGED notMonitor

\* NetworkMonitor.start_https_proxy, generator.generate(...): CertificateGenerator
\* defines generate_ca_certificate and no generate, so the call raises
\* AttributeError; the except clause prints the error and returns False
StartHttpsGenerate ==
    /\ mon.pc = "proxy_generate"
    /\ mon' = [mon EXCEPT !.pc = "start_finish", !.success = FALSE]
    /\ stream' = emit(stream, "error")
    /\ UNCHANGED <<handled, alerts_due>>
    /\ UNCHANGED notMonitor

\* NetworkMonitor.start_https_proxy, TransparentProxy(...) and its thread, up to
\* thread.start().  ok = FALSE is what the TransparentProxy of src/ gives (its
\* __init__ takes a ProxyConfig and none of the keywords passed: TypeError);
\* ok = TRUE is a proxy class with the constructor main.py is written for.
StartHttpsThread(ok) ==
    /\ mon.pc = "proxy_make"
    /\ mon' = [mon EXCEPT !.pc = IF ok THEN "proxy_status" ELSE "start_finish",
                          !.success = ok,
                          !.https_proxy = IF ok THEN "started" ELSE @,
                          !.proxy_thread = IF ok THEN "pending" ELSE @,
                          !.start_order = IF ok THEN Append(@, "https_proxy") ELSE @]
    /\ stream' = IF ok THEN stream ELSE emit(stream, "error")
    /\ UNCHANGED <<handled, alerts_due>>
    /\ UNCHANGED notMonitor

\* NetworkMonitor.start_https_proxy after thread.start(), with the proxy's thread
\* under way: emit_status("HTTPS proxy started on port ..."), return True
StartProxyStatus ==
    /\ mon.pc = "proxy_status"
    /\ mon' = [mon EXCEPT !.pc = "start_finish"]
    /\ stream' = emit(stream, "status")
    /\ UNCHANGED <<handled, alerts_due>>
    /\ UNCHANGED notMonitor

\* NetworkMonitor.start, "if success: ... else: ...": is_running is set and
\* "Network Monitor started successfully" printed, or the error is printed and
\* start() returns False
StartFinish ==
    /\ mon.pc = "start_finish"
    /\ mon' = IF mon.success
              THEN [mon EXCEPT !.pc = "start_started", !.is_running = TRUE]
              ELSE [mon EXCEPT !.pc = StartReturnsFalse(mon)]
    /\ stream' = emit(stream, IF mon.success THEN "status" ELSE "error")
    /\ UNCHANGED <<handled, alerts_due>>
    /\ UNCHANGED notMonitor

\* NetworkMonitor.start, self.emit("started", ...) and return True
StartStarted ==
    /\ mon.pc = "start_started"
    /\ mon' = [mon EXCEPT !.pc = "running"]
    /\ stream' = emit(stream, "started")
    /\ UNCHANGED <<handled, alerts_due>>
    /\ UNCHANGED notMonitor

\* NetworkMonitor.stop up to the components: "Stopping Network Monitor..." is
\* printed and the stop event set
StopBegins(m, then) ==
    [m EXCEPT !.pc = "stop_dns", !.after_stop = then, !.stop_order = <<>>]

\* a caller's monitor.stop().  stop() takes no look at the state of the monitor:
\* it runs before start(), after a start() that failed, and again after stop().
StopCall ==
    /\ mon.pc \in {"new", "running", "failed", "stopped"}
    /\ ~mon.via_run
    /\ mon.stops < MaxStops
    /\ mon' = [StopBegins(mon, <<"stopped">>) EXCEPT !.stops = @ + 1]
    /\ stream' = emit(stream, "status")
    /\ UNCHANGED <<handled, alerts_due>>
    /\ UNCHANGED notMonitor

\* NetworkMonitor.run, the wait loop ends (KeyboardInterrupt or the stop event):
\* the finally clause calls stop()
RunInterrupted ==
    /\ mon.pc = "running"
    /\ mon.via_run
    /\ mon' = StopBegins(mon, <<"exit0">>)
    /\ stream' = emit(stream, "status")
    /\ UNCHANGED <<handled, alerts_due>>
    /\ UNCHANGED notMonitor

\* NetworkMonitor.run, signal_handler: stop(), then sys.exit(0).  The handler is
\* installed before start() and stays installed: the signal can come during
\* start(), in the wait loop, and during a stop() (which is then left unfinished
\* when the handler's SystemExit passes through it).  From the wait loop the
\* SystemExit leaves through the finally clause, which calls stop() again; from
\* start() it leaves run() directly.
RunSignal ==
    /\ mon.pc \in StartPcs \cup {"running"} \cup StopPcs
    /\ mon.via_run
    /\ mon.stops < MaxSignals
    /\ mon' = [StopBegins(mon, IF mon.pc = "running" THEN <<"stop_again", "exit0">>
                               ELSE IF mon.pc \in StopPcs THEN mon.after_stop
                               ELSE <<"exit0">>)
                 EXCEPT !.stops = @ + 1]
    /\ stream' = emit(stream, "status")
    /\ UNCHANGED <<handled, alerts_due>>
    /\ UNCHANGED notMonitor

\* what _on_device_update prints for an event of the gateway's own (started,
\* error, stopped), which has no is_new: the `device` event, unless storing the
\* record raises
GatewayEvent(persist_raises) == IF persist_raises THEN <<>> ELSE <<"device">>

\* NetworkMonitor.stop: if self._dns_capture: self._dns_capture.stop()
StopDnsCapture ==
    /\ mon.pc = "stop_dns"
    /\ mon' = IF mon.dns_capture # "none"
              THEN [mon EXCEPT !.pc = "stop_arp", !.dns_capture = "stopped",
                               !.stop_order = Append(@, "dns_capture")]
              ELSE [mon EXCEPT !.pc = "stop_arp"]
    /\ UNCHANGED <<stream, handled, alerts_due>>
    /\ UNCHANGED notMonitor

\* NetworkMonitor.stop: if self._arp_gateway: self._arp_gateway.stop().
\* NetworkMonitor.stop: if self._arp_gateway: self._arp_gateway.stop(), as far
\* as the return of disable_ip_forwarding: ARPGateway.stop() has cleared running,
\* waited for the poisoning thread and restored the targets.  A gateway whose
\* start() has not run yet on its thread is stopped all the same, and started
\* afterwards.
StopArpGateway ==
    /\ mon.pc = "stop_arp"
    /\ IF mon.arp_gateway # "none"
       THEN /\ mon' = [mon EXCEPT !.pc = "stop_arp_callback"]
            /\ disable_ip_forwarding
       ELSE /\ mon' = [mon EXCEPT !.pc = "stop_proxy"]
            /\ UNCHANGED ip_forward
    /\ UNCHANGED <<stream, handled, alerts_due>>
    /\ UNCHANGED <<forwardBefore, notMonitorOs>>

\* ARPGateway.stop() ends with callback({"type": "stopped", ...}), which is
\* _on_device_update, and returns to NetworkMonitor.stop
StopArpCallback(persist_raises) ==
    /\ mon.pc = "stop_arp_callback"
    /\ mon' = [mon EXCEPT !.pc = "stop_proxy", !.arp_gateway = "stopped",
                          !.arp_thread = IF @ = "running" THEN "stopped" ELSE @,
                          !.stop_order = Append(@, "arp_gateway")]
    /\ stream' = stream \o GatewayEvent(persist_raises)
    /\ UNCHANGED <<handled, alerts_due>>
    /\ UNCHANGED notMonitor

\* NetworkMonitor.stop: if self._https_proxy: self._https_proxy.stop()
StopHttpsProxy ==
    /\ mon.pc = "stop_proxy"
    /\ mon' = IF mon.https_proxy # "none"
              THEN [mon EXCEPT !.pc = "stop_forwarding", !.https_proxy = "stopped",
                               !.proxy_thread = IF @ = "running" THEN "stopped" ELSE @,
                               !.stop_order = Append(@, "https_proxy")]
              ELSE [mon EXCEPT !.pc = "stop_forwarding"]
    /\ UNCHANGED <<stream, handled, alerts_due>>
    /\ UNCHANGED notMonitor

\* NetworkMonitor.stop: if self._ip_forwarding: self._ip_forwarding.disable().
\* stop_order lists what stop() shut down of what start() had brought up: an
\* IPForwarding object whose enable() raised is not on either list.
StopIpForwarding ==
    /\ mon.pc = "stop_forwarding"
    /\ IF mon.ip_forwarding # "none"
       THEN /\ mon' = [mon EXCEPT !.pc = "stop_join",
                                  !.ip_forwarding = IF @ = "created" THEN @ ELSE "disabled",
                                  !.stop_order = IF mon.ip_forwarding = "created" THEN @
                                                 ELSE Append(@, "ip_forwarding")]
            /\ disable_ip_forwarding
       ELSE /\ mon' = [mon EXCEPT !.pc = "stop_join"]
            /\ UNCHANGED ip_forward
    /\ UNCHANGED <<stream, handled, alerts_due>>
    /\ UNCHANGED <<forwardBefore, notMonitorOs>>

\* some thread of a component was started
ThreadsStarted ==
    mon.dns_capture # "none" \/ mon.arp_gateway # "none" \/ mon.https_proxy # "none"

\* NetworkMonitor.stop: for thread in self._threads: thread.join(timeout=5), then
\* the database is closed and is_running cleared.  The joins return because the
\* threads have ended, ARPGateway.start() and TransparentProxy.start() included,
\* or one of them gives up after its five seconds (timed_out) and the
\* components' threads go on beside the rest of stop().
StopJoinThreads(timed_out) ==
    /\ mon.pc = "stop_join"
    /\ IF timed_out
       THEN ThreadsStarted
       ELSE mon.arp_thread # "pending" /\ mon.proxy_thread # "pending"
    /\ mon' = [mon EXCEPT !.pc = "stop_status",
                          !.joined = ~timed_out,
                          !.is_running = FALSE]
    /\ UNCHANGED <<stream, handled, alerts_due>>
    /\ UNCHANGED notMonitor

\* NetworkMonitor.stop: emit_status("Network Monitor stopped")
StopStatus ==
    /\ mon.pc = "stop_status"
    /\ mon' = [mon EXCEPT !.pc = "stop_stopped"]
    /\ stream' = emit(stream, "status")
    /\ UNCHANGED <<handled, alerts_due>>
    /\ UNCHANGED notMonitor

\* NetworkMonitor.stop: self.emit("stopped", {}); then the main thread goes on
\* with what called stop()
StopStopped ==
    /\ mon.pc = "stop_stopped"
    /\ mon' = [mon EXCEPT !.pc = Head(mon.after_stop),
                          !.after_stop = Tail(mon.after_stop)]
    /\ stream' = emit(stream, "stopped")
    /\ UNCHANGED <<handled, alerts_due>>
    /\ UNCHANGED notMonitor

\* NetworkMonitor.run, the finally clause after the signal handler's stop():
\* stop() begins once more
StopAgain ==
    /\ mon.pc = "stop_again"
    /\ mon' = [mon EXCEPT !.pc = "stop_dns", !.stop_order = <<>>]
    /\ stream' = emit(stream, "status")
    /\ UNCHANGED <<handled, alerts_due>>
    /\ UNCHANGED notMonitor

\* the thread "ARPGateway" runs ARPGateway.start() as far as the return of
\* enable_ip_forwarding, or, when the gateway IP or MAC is not resolved, to its
\* end: the error goes to the callback, which is _on_device_update, and start()
\* returns False; nobody reads the value.  Nothing holds the thread back once
\* stop() has stopped the gateway or has returned.
ArpGatewayThread(resolved, persist_raises) ==
    /\ mon.arp_thread = "pending"
    /\ mon.arp_start = "none"
    /\ IF resolved
       THEN /\ ~persist_raises
            /\ mon' = [mon EXCEPT !.arp_start = "enabled"]
            /\ ip_forward' = TRUE
            /\ UNCHANGED stream
       ELSE /\ mon' = [mon EXCEPT !.arp_thread = "failed"]
            /\ stream' = stream \o GatewayEvent(persist_raises)
            /\ UNCHANGED ip_forward
    /\ UNCHANGED <<handled, alerts_due>>
    /\ UNCHANGED <<forwardBefore, notMonitorOs>>

\* ARPGateway.start() after enable_ip_forwarding: running is set, the poisoning
\* thread started and the started event passed to the callback; start() returns
\* True
ArpGatewayStarted(persist_raises) ==
    /\ mon.arp_thread = "pending"
    /\ mon.arp_start = "enabled"
    /\ mon' = [mon EXCEPT !.arp_thread = "running", !.arp_start = "none"]
    /\ stream' = stream \o GatewayEvent(persist_raises)
    /\ UNCHANGED <<handled, alerts_due>>
    /\ UNCHANGED notMonitor

\* the thread "HTTPSProxy" runs TransparentProxy.start(): the proxy comes up, or
\* its start-up raises inside run_in_thread, where the exception is printed
HttpsProxyThread(came_up) ==
    /\ mon.proxy_thread = "pending"
    /\ mon' = [mon EXCEPT !.proxy_thread = IF came_up THEN "running" ELSE "failed"]
    /\ UNCHANGED <<stream, handled, alerts_due>>
    /\ UNCHANGED notMonitor

\* Notifier.notify(title, message, ...): a call that passes fewer than the two
\* required arguments raises TypeError
NotifyRaises(nargs) == nargs < 2

\* a component's thread can call its handler from the moment start() has started
\* it until stop() has waited for it
ThreadLive(component) ==
    \/ mon[component] = "started"
    \/ mon[component] = "stopped" /\ ~mon.joined

\* the shape shared by _on_dns_packet, _on_http_flow and _on_device_update: store
\* the record, then, if there is an alert, notify(alert) and emit it, then emit
\* the record itself; any exception ends the handler with a log line only
Handle(component, event_type, persist_raises, alert) ==
    /\ ThreadLive(component)
    /\ handled < MaxEvents
    /\ handled' = handled + 1
    /\ alerts_due' = IF alert THEN alerts_due + 1 ELSE alerts_due
    /\ stream' =
         IF persist_raises THEN stream
         ELSE IF alert
              THEN IF NotifyRaises(1) THEN stream
                   ELSE emit(emit(stream, "alert"), event_type)
              ELSE emit(stream, event_type)
    /\ UNCHANGED mon

\* NetworkMonitor._on_dns_packet; alert: alert_engine.check_dns returned an alert
OnDnsPacket(persist_raises, alert) ==
    /\ Handle("dns_capture", "dns", persist_raises, alert)
    /\ UNCHANGED notMonitor

\* NetworkMonitor._on_http_flow; alert: alert_engine.check_traffic returned an alert
OnHttpFlow(persist_raises, alert) ==
    /\ Handle("https_proxy", "traffic", persist_raises, alert)
    /\ UNCHANGED notMonitor

\* NetworkMonitor._on_device_update; alert: device_data["is_new"]
OnDeviceUpdate(persist_raises, is_new) ==
    /\ Handle("arp_gateway", "device", persist_raises, is_new)
    /\ UNCHANGED notMonitor

MonitorNext ==
    \/ \E mode \in Modes : StartCall(mode)
    \/ \E mode \in Modes : Run(mode)
    \/ \E found \in BOOLEAN : SetupNetwork(found)
    \/ \E cfg \in StealthSettings : SetupStealth(cfg)
    \/ \E ok \in BOOLEAN : StartDnsCapture(ok)
    \/ StartDnsStatus
    \/ \E ok \in BOOLEAN : StartArpForwarding(ok)
    \/ \E ok \in BOOLEAN : StartArpScan(ok)
    \/ \E ok \in BOOLEAN : StartArpGateway(ok)
    \/ StartArpStatus
    \/ \E cert_exists \in BOOLEAN : StartHttpsProxy(cert_exists)
    \/ StartHttpsGenerate
    \/ \E ok \in BOOLEAN : StartHttpsThread(ok)
    \/ StartProxyStatus
    \/ StartFinish
    \/ StartStarted
    \/ StopCall
    \/ RunInterrupted
    \/ RunSignal
    \/ StopDnsCapture
    \/ StopArpGateway
    \/ \E persist_raises \in BOOLEAN : StopArpCallback(persist_raises)
    \/ StopHttpsProxy
    \/ StopIpForwarding
    \/ \E timed_out \in BOOLEAN : StopJoinThreads(timed_out)
    \/ StopStatus
    \/ StopStopped
    \/ StopAgain
    \/ \E resolved, persist_raises \in BOOLEAN : ArpGatewayThread(resolved, persist_raises)
    \/ \E persist_raises \in BOOLEAN : ArpGatewayStarted(persist_raises)
    \/ \E came_up \in BOOLEAN : HttpsProxyThread(came_up)
    \/ \E persist_raises, alert \in BOOLEAN : OnDnsPacket(persist_raises, alert)
    \/ \E persist_raises, alert \in BOOLEAN : OnHttpFlow(persist_raises, alert)
    \/ \E persist_raises, is_new \in BOOLEAN : OnDeviceUpdate(persist_raises, is_new)

(***************************************************************************)
(* Claims about the monitor                                                *)
(***************************************************************************)
RECURSIVE CountIn(_, _, _)
CountIn(s, x, n) ==
    IF n = 0 THEN 0 ELSE CountIn(s, x, n - 1) + (IF s[n] = x THEN 1 ELSE 0)

\* C14: every alert the handlers had to raise (for a DNS query, an HTTP flow or a
\* device update) is on the event stream, also when storing the record failed.
C14_NoAlertDropped == CountIn(stream, "alert", Len(stream)) = alerts_due

RECURSIVE Reverse(_)
Reverse(s) == IF s = <<>> THEN <<>> ELSE Reverse(Tail(s)) \o <<Head(s)>>

\* C16: when stop() has run, it has shut the components down in the reverse of
\* the order in which start() brought them up.
C16_StopReversesStart ==
    mon.pc \in {"stopped", "exit0"} => mon.stop_order = Reverse(mon.start_order)

\* C17: when run() exits with code 1 because start() failed, nothing that start()
\* had brought up is still up: no capture or proxy running, no ARP gateway left
\* started, IP forwarding not left enabled.
C17_FailedStartCleansUp ==
    mon.pc = "exit1" =>
        /\ mon.dns_capture # "started"
        /\ mon.arp_gateway # "started"
        /\ mon.https_proxy # "started"
        /\ mon.ip_forwarding # "enabled"

\* C35: when start() has returned success and `started` is on the stream, no
\* component the mode requires has failed to come up: neither the ARP engine,
\* for want of a gateway, nor the proxy
C35_StartedMeansRunning ==
    (mon.pc = "running" /\ CountIn(stream, "started", Len(stream)) > 0) =>
        (mon.arp_thread # "failed" /\ mon.proxy_thread # "failed")

\* C36: a shutdown, however it was triggered, has put exactly one `stopped` on
\* the stream
C36_OneStoppedPerShutdown ==
    mon.pc \in {"stopped", "exit0"} => CountIn(stream, "stopped", Len(stream)) = 1

(***************************************************************************)
(* schedules.py used directly: a caller of ScheduleManager adds, enables,  *)
(* disables and deletes schedules and asks is_active_now / should_block;   *)
(* "now" is the datetime.now() the call sees                               *)
(***************************************************************************)
Monday  == 0
Tuesday == 1

Mon2330 == [date |-> 0, weekday |-> Monday, secs |-> 23 * 3600 + 30 * 60]
Tue0030 == [date |-> 1, weekday |-> Tuesday, secs |-> 30 * 60]

CallInstants == {Instants[1], Mon2330, Tue0030}

\* "night": gaming is blocked 22:00-07:00, the range listed under Monday
Night ==
    Schedule("night", "time_range", {Str_gaming}, {},
             [d \in {Monday} |-> <<TimeRange(22, 0, 7, 0)>>], 1)

\* "bedtime": the same range listed under every day (as PRESET_SCHEDULES does)
Bedtime ==
    Schedule("bedtime", "time_range", {Str_gaming}, {},
             [d \in 0..6 |-> <<TimeRange(22, 0, 7, 0)>>], 1)

\* two schedules of the same priority that differ in nothing but their id
Alpha == Schedule("alpha", "always_block", {Str_gaming}, {}, <<>>, 5)
Zeta  == Schedule("zeta", "always_block", {Str_gaming}, {}, <<>>, 5)

ManagerScheduleArgs == {Night, Bedtime, Alpha, Zeta}
ManagerScheduleIds  == {sch.id : sch \in ManagerScheduleArgs}

ById(d, id) == CHOOSE x \in {d[i] : i \in 1..Len(d)} : x.id = id

ScheduleCallInit ==
    /\ asked = <<>>
    /\ answer = <<>>

\* ScheduleManager.add_schedule
ManagerAddSchedule(sch) ==
    /\ asked = <<>>
    /\ AddSchedule(sch)

\* ScheduleManager.update_schedule(id, {"enabled": en})
ManagerUpdateSchedule(id, en) ==
    /\ asked = <<>>
    /\ UpdateSchedule(id, en)

\* ScheduleManager.delete_schedule
ManagerDeleteSchedule(id) ==
    /\ asked = <<>>
    /\ DeleteSchedule(id)

\* schedules[id].is_active_now()
IsActiveNowCall(id, t) ==
    /\ asked = <<>>
    /\ HasId(schedules, id)
    /\ asked' = <<[op |-> "is_active_now", id |-> id, now |-> t]>>
    /\ answer' = <<[active |-> IsActiveNow(ById(schedules, id), t)]>>
    /\ UNCHANGED notScheduleCall

\* ScheduleManager.should_block(domain, category)
ShouldBlockCall(t, domain, category) ==
    /\ asked = <<>>
    /\ asked' = <<[op |-> "should_block", domain |-> domain, category |-> category,
                   now |-> t]>>
    /\ answer' = <<ManagerShouldBlockAt(schedules, t, domain, category)>>
    /\ UNCHANGED notScheduleCall

\* the caller has its answer
ScheduleReturn ==
    /\ asked # <<>>
    /\ asked' = <<>>
    /\ answer' = <<>>
    /\ UNCHANGED notScheduleCall

ScheduleNext ==
    \/ \E sch \in ManagerScheduleArgs : ManagerAddSchedule(sch)
    \/ \E id \in ManagerScheduleIds, en \in BOOLEAN : ManagerUpdateSchedule(id, en)
    \/ \E id \in ManagerScheduleIds : ManagerDeleteSchedule(id)
    \/ \E id \in ManagerScheduleIds, t \in CallInstants : IsActiveNowCall(id, t)
    \/ \E t \in CallInstants, category \in {Str_gaming, Str_adult} :
          ShouldBlockCall(t, Str_Empty, category)
    \/ ScheduleReturn

(***************************************************************************)
(* Claims about schedules                                                  *)
(***************************************************************************)
\* the schedule is an enabled time_range schedule that lists 22:00-07:00 under day
ListsNightRange(sch, day) ==
    /\ sch.enabled
    /\ sch.schedule_type = "time_range"
    /\ \E i \in 1..Len(DayRanges(sch, day)) :
          DayRanges(sch, day)[i] = TimeRange(22, 0, 7, 0)

\* C19: a time_range schedule that lists 22:00-07:00 for Monday is active at
\* Monday 23:30 and at 00:30 of the night that follows (Tuesday 00:30).
C19_OvernightRangeCoversItsNight ==
    (asked # <<>> /\ asked[1].op = "is_active_now"
        /\ ListsNightRange(ById(schedules, asked[1].id), Monday)
        /\ asked[1].now \in {Mon2330, Tue0030})
    => answer[1].active

\* schedule ids in lexicographic order
IdsInOrder == <<"alpha", "bedtime", "homework", "night", "zeta">>
IdRank(id) == CHOOSE i \in 1..Len(IdsInOrder) : IdsInOrder[i] = id

\* the schedules that are active at t and match the domain or category
Candidates(t, domain, category) ==
    {sch \in {schedules[i] : i \in 1..Len(schedules)} :
        ScheduleShouldBlock(sch, t, domain, category)}

\* among them: highest priority first, then the lexicographically smallest id
Preferred(cands) ==
    CHOOSE sch \in cands :
        \A other \in cands :
            \/ sch.priority > other.priority
            \/ sch.priority = other.priority /\ IdRank(sch.id) <= IdRank(other.id)

\* C20: the schedule reported as the blocking one is, among the active matching
\* schedules, the one of highest priority and, among equal priorities, the one
\* whose id is lexicographically smallest, whatever the order they were added in.
C20_HighestPriorityThenSmallestId ==
    (asked # <<>> /\ asked[1].op = "should_block")
    => LET cands == Candidates(asked[1].now, asked[1].domain, asked[1].category) IN
       IF cands = {} THEN ~answer[1].block
       ELSE answer[1].block /\ answer[1].id = Preferred(cands).id

(***************************************************************************)
(* CertificateGenerator: the CA files of the certificate directory         *)
(***************************************************************************)
MaxKeys == 2             \* bound on the number of CA keys generated
MaxCertTime == 2         \* bound on the seconds that pass
MaxCertCallers == 2      \* bound on the callers that work on the directory at a time

\* CERT_PROFILES, the profiles used here
CertProfiles == {"google_trust", "wifi_security"}
CertProfileArgs == CertProfiles \cup {"bogus"}

\* base_name = f"{profile_name}_{timestamp}": the name shared by the .key, .crt
\* and .pem files of one generation
BaseName(profile_name, timestamp) == <<profile_name, timestamp>>
BaseNames == CertProfiles \X (1..MaxCertTime)
NoBaseName == <<"none", 0>>

\* the files of one base name.  A key file holds a key (its number); a
\* certificate holds the number of the key it certifies; the .pem file holds what
\* was written into it: a key and a certificate, or a certificate alone; the .cer
\* file holds a certificate in DER form.  0: there is no such file, or no such
\* part.
NoFiles == [key |-> 0, crt |-> 0, pem_key |-> 0, pem_crt |-> 0, cer |-> 0]

\* the callers of generate_ca_certificate: the handlers of the installer's web
\* server, the monitor, the command line
CertCallers == 1..MaxCertCallers

\* a caller outside generate_ca_certificate; fingerprint is that of the
\* CertificateInfo its last call returned
CertIdle(fingerprint) ==
    [pc |-> "idle", base_name |-> NoBaseName, key |-> 0, fingerprint |-> fingerprint,
     metadata |-> <<>>, pem_buffer |-> 0]

\* CertificateGenerator.__init__ on a new directory
CertInit ==
    /\ cert_dir = [b \in BaseNames |-> NoFiles]
    /\ cert_metadata = <<>>
    /\ cert_time = 1
    /\ cert_made = 0
    /\ cert_overwritten = FALSE
    /\ cert_calls = [c \in CertCallers |-> CertIdle(0)]

certSame == UNCHANGED <<cert_time, cert_overwritten, cert_made>>

\* generate_ca_certificate(profile_name) up to the generation: ValueError for an
\* unknown profile, else the file names are made from the profile and the second.
\* library: the import of cryptography succeeds in the caller's interpreter; the
\* key is then made in memory, otherwise by openssl genrsa.
GenerateCaCertificate(c, profile_name, library) ==
    /\ cert_calls[c].pc = "idle"
    /\ IF profile_name \notin CertProfiles
       THEN UNCHANGED <<cert_calls, cert_made>>
       ELSE /\ cert_made < MaxKeys
            /\ cert_made' = cert_made + 1
            /\ cert_calls' = [cert_calls EXCEPT ![c] =
                  [pc |-> IF library THEN "write_key" ELSE "genrsa",
                   base_name |-> BaseName(profile_name, cert_time),
                   key |-> cert_made + 1, fingerprint |-> 0, metadata |-> <<>>,
                   pem_buffer |-> 0]]
    /\ UNCHANGED <<cert_dir, cert_metadata, cert_time, cert_overwritten>>
    /\ UNCHANGED notCert

\* a key is written into the .key file of the call's base name
WriteKeyFile(c, next_pc) ==
    LET call == cert_calls[c] IN
    /\ cert_dir' = [cert_dir EXCEPT ![call.base_name].key = call.key]
    /\ cert_overwritten' = (cert_overwritten \/ cert_dir[call.base_name].key # 0)
    /\ cert_calls' = [cert_calls EXCEPT ![c].pc = next_pc]
    /\ UNCHANGED <<cert_metadata, cert_time, cert_made>>

\* _generate_with_cryptography: key_path.write_bytes(key_bytes)
CryptographyWriteKey(c) ==
    /\ cert_calls[c].pc = "write_key"
    /\ WriteKeyFile(c, "write_crt")
    /\ UNCHANGED notCert

\* _generate_with_cryptography: cert_path.write_bytes(cert_bytes), the
\* certificate signed in memory with the call's own key
CryptographyWriteCrt(c) ==
    LET call == cert_calls[c] IN
    /\ call.pc = "write_crt"
    /\ cert_dir' = [cert_dir EXCEPT ![call.base_name].crt = call.key]
    /\ cert_calls' = [cert_calls EXCEPT ![c].pc = "write_pem"]
    /\ UNCHANGED cert_metadata
    /\ certSame
    /\ UNCHANGED notCert

\* _generate_with_cryptography: pem_path.write_bytes(key_bytes + cert_bytes), and
\* the fingerprint of the certificate in memory
CryptographyWritePem(c) ==
    LET call == cert_calls[c] IN
    /\ call.pc = "write_pem"
    /\ cert_dir' = [cert_dir EXCEPT ![call.base_name].pem_key = call.key,
                                    ![call.base_name].pem_crt = call.key]
    /\ cert_calls' = [cert_calls EXCEPT ![c].pc = "metadata_read",
                                        ![c].fingerprint = call.key]
    /\ UNCHANGED cert_metadata
    /\ certSame
    /\ UNCHANGED notCert

\* _generate_with_openssl: openssl genrsa -out <base>.key
OpensslGenrsa(c) ==
    /\ cert_calls[c].pc = "genrsa"
    /\ WriteKeyFile(c, "req")
    /\ UNCHANGED notCert

\* _generate_with_openssl: openssl req -new -x509 -key <base>.key -out
\* <base>.crt certifies the key the .key file holds when it runs
OpensslReq(c) ==
    LET call == cert_calls[c] IN
    /\ call.pc = "req"
    /\ cert_dir' = [cert_dir EXCEPT ![call.base_name].crt = cert_dir[call.base_name].key]
    /\ cert_calls' = [cert_calls EXCEPT ![c].pc = "combine"]
    /\ UNCHANGED cert_metadata
    /\ certSame
    /\ UNCHANGED notCert

\* _generate_with_openssl: open(pem_path, 'w') empties the .pem file
OpensslPemOpen(c) ==
    LET call == cert_calls[c] IN
    /\ call.pc = "combine"
    /\ cert_dir' = [cert_dir EXCEPT ![call.base_name].pem_key = 0,
                                    ![call.base_name].pem_crt = 0]
    /\ cert_calls' = [cert_calls EXCEPT ![c].pc = "pem_key"]
    /\ UNCHANGED cert_metadata
    /\ certSame
    /\ UNCHANGED notCert

\* _generate_with_openssl: pem_file.write(key_path.read_text()): the key the
\* .key file holds when it is read goes into the buffer of pem_file, and
\* nothing reaches the .pem file yet
OpensslPemWriteKey(c) ==
    LET call == cert_calls[c] IN
    /\ call.pc = "pem_key"
    /\ cert_calls' = [cert_calls EXCEPT ![c].pc = "pem_crt",
                                        ![c].pem_buffer = cert_dir[call.base_name].key]
    /\ UNCHANGED <<cert_dir, cert_metadata>>
    /\ certSame
    /\ UNCHANGED notCert

\* _generate_with_openssl: pem_file.write(cert_path.read_text()) and the end of
\* the with block: the certificate the .crt file holds when it is read, which
\* can be another call's, follows the key in the buffer, and the close writes
\* the buffer over whatever the .pem file holds by then
OpensslPemWriteCrt(c) ==
    LET call == cert_calls[c] IN
    /\ call.pc = "pem_crt"
    /\ cert_dir' = [cert_dir EXCEPT ![call.base_name].pem_key = call.pem_buffer,
                                    ![call.base_name].pem_crt = cert_dir[call.base_name].crt]
    /\ cert_calls' = [cert_calls EXCEPT ![c].pc = "x509", ![c].pem_buffer = 0]
    /\ UNCHANGED cert_metadata
    /\ certSame
    /\ UNCHANGED notCert

\* _generate_with_openssl: openssl x509 -in <base>.crt -fingerprint reads the
\* certificate the .crt file holds when it runs
OpensslX509(c) ==
    LET call == cert_calls[c] IN
    /\ call.pc = "x509"
    /\ cert_calls' = [cert_calls EXCEPT ![c].pc = "metadata_read",
                                        ![c].fingerprint = cert_dir[call.base_name].crt]
    /\ UNCHANGED <<cert_dir, cert_metadata>>
    /\ certSame
    /\ UNCHANGED notCert

\* _save_metadata: metadata = json.loads(self.metadata_file.read_text())
SaveMetadataRead(c) ==
    /\ cert_calls[c].pc = "metadata_read"
    /\ cert_calls' = [cert_calls EXCEPT ![c].pc = "metadata_write",
                                        ![c].metadata = cert_metadata]
    /\ UNCHANGED <<cert_dir, cert_metadata>>
    /\ certSame
    /\ UNCHANGED notCert

\* _save_metadata: the list read, with the entry of this certificate appended, is
\* written over the file; generate_ca_certificate returns the CertificateInfo
SaveMetadataWrite(c) ==
    LET call == cert_calls[c] IN
    /\ call.pc = "metadata_write"
    /\ cert_metadata' = Append(call.metadata,
                               [base_name |-> call.base_name, key |-> call.fingerprint])
    /\ cert_calls' = [cert_calls EXCEPT ![c] = CertIdle(call.fingerprint)]
    /\ UNCHANGED cert_dir
    /\ certSame
    /\ UNCHANGED notCert

\* export_for_device(<base>.crt, output_format) with the default output path:
\* 'der' converts the certificate into <base>.cer; 'pem' copies the certificate
\* over <base>.pem, which then holds no key
ExportForDevice(base_name, output_format) ==
    /\ cert_dir[base_name].crt # 0
    /\ cert_dir' =
         IF output_format = "der"
         THEN [cert_dir EXCEPT ![base_name].cer = cert_dir[base_name].crt]
         ELSE [cert_dir EXCEPT ![base_name].pem_key = 0,
                               ![base_name].pem_crt = cert_dir[base_name].crt]
    /\ UNCHANGED <<cert_metadata, cert_calls>>
    /\ certSame
    /\ UNCHANGED notCert

\* a second passes
CertTick ==
    /\ cert_time < MaxCertTime
    /\ cert_time' = cert_time + 1
    /\ UNCHANGED <<cert_dir, cert_metadata, cert_made, cert_overwritten, cert_calls>>
    /\ UNCHANGED notCert

CertNext ==
    \/ \E c \in CertCallers, profile_name \in CertProfileArgs, library \in BOOLEAN :
          GenerateCaCertificate(c, profile_name, library)
    \/ \E c \in CertCallers : CryptographyWriteKey(c)
    \/ \E c \in CertCallers : CryptographyWriteCrt(c)
    \/ \E c \in CertCallers : CryptographyWritePem(c)
    \/ \E c \in CertCallers : OpensslGenrsa(c)
    \/ \E c \in CertCallers : OpensslReq(c)
    \/ \E c \in CertCallers : OpensslPemOpen(c)
    \/ \E c \in CertCallers : OpensslPemWriteKey(c)
    \/ \E c \in CertCallers : OpensslPemWriteCrt(c)
    \/ \E c \in CertCallers : OpensslX509(c)
    \/ \E c \in CertCallers : SaveMetadataRead(c)
    \/ \E c \in CertCallers : SaveMetadataWrite(c)
    \/ \E base_name \in BaseNames, output_format \in {"der", "pem"} :
          ExportForDevice(base_name, output_format)
    \/ CertTick

\* the CA private keys on disk: the base names that have a .key file
KeysOnDisk == {b \in BaseNames : cert_dir[b].key # 0}

\* no call of generate_ca_certificate is under way
CertQuiet == \A c \in CertCallers : cert_calls[c].pc = "idle"

\* C27: after any sequence of CA generation requests exactly one CA private key
\* exists on disk: generating a CA when one already exists is refused, and no
\* existing key or certificate file is overwritten or joined by a second CA
C27_OneCaKeyOnDisk ==
    (cert_made >= 1 /\ CertQuiet) =>
        /\ Cardinality(KeysOnDisk) = 1
        /\ cert_made = 1
        /\ ~cert_overwritten

(***************************************************************************)
(* DNSParser.parse and DNSParser._parse_name, on raw bytes.  A byte string *)
(* is a sequence of numbers 0..255; Python's data[k] is ByteAt(data, k).   *)
(***************************************************************************)
ByteAt(data, k) == data[k + 1]
\* data[a:b]
Slice(data, a, b) == SubSeq(data, a + 1, IF b < Len(data) THEN b ELSE Len(data))
\* struct.unpack("!H", ...)
U16(data, k) == ByteAt(data, k) * 256 + ByteAt(data, k + 1)

\* a 12-byte header: id 0x1234, flags 0x0100 (a query, recursion desired),
\* qcount questions and no records
DnsHeader(qcount) == <<18, 52, 1, 0, 0, qcount, 0, 0, 0, 0, 0, 0>>
QTypeClass == <<0, 1, 0, 1>>                      \* qtype A, qclass IN
Name_ea_com == <<2, 101, 97, 3, 99, 111, 109, 0>>  \* 2 'ea' 3 'com' 0

\* the byte strings parse is called with
ParseArgs ==
    { <<18, 52, 1>>,                                              \* too short
      DnsHeader(1) \o Name_ea_com \o QTypeClass,                   \* a query for ea.com
      DnsHeader(2) \o Name_ea_com \o QTypeClass
          \o <<1, 97, 192, 12>> \o QTypeClass,                     \* 'a' + pointer to ea.com
      DnsHeader(1) \o <<5, 97>>,                                   \* label longer than the data
      DnsHeader(1) \o <<1, 97, 0, 0, 1>>,                          \* question cut short
      DnsHeader(1) \o <<192, 99>> \o QTypeClass,                   \* pointer past the end
      DnsHeader(1) \o <<192, 14, 192, 12>> \o QTypeClass }         \* two pointers in a cycle

NotParsing ==
    [pc |-> "idle", data |-> <<>>, offset |-> 0, qleft |-> 0, questions |-> <<>>,
     labels |-> <<>>, original_offset |-> 0, jumped |-> FALSE]

ParseInit ==
    /\ parser = NotParsing
    /\ parse_result = <<>>

\* ".".join(labels), as bytes
RECURSIVE JoinDots(_)
JoinDots(labels) ==
    IF labels = <<>> THEN <<>>
    ELSE IF Len(labels) = 1 THEN labels[1]
    ELSE labels[1] \o <<46>> \o JoinDots(Tail(labels))

\* what parse returns is an Optional[DNSPacket]: None, or <<packet>>
NoneParsed == <<>>

\* DNSPacket, the fields taken from the header and the questions
ParsedPacket(data, questions) ==
    LET flags == U16(data, 2) IN
    [transaction_id |-> U16(data, 0),
     is_response |-> flags >= 32768,
     opcode |-> (flags \div 2048) % 16,
     response_code |-> flags % 16,
     questions |-> questions]

\* parse(data): None for less than 12 bytes, else the header is unpacked; the
\* caller holds what the call before returned until this one returns
ParseCall(data) ==
    /\ parser.pc = "idle"
    /\ IF Len(data) < 12
       THEN /\ parse_result' = <<NoneParsed>>
            /\ parser' = NotParsing
       ELSE /\ UNCHANGED parse_result
            /\ parser' = [NotParsing EXCEPT !.pc = "questions", !.data = data,
                                            !.offset = 12, !.qleft = U16(data, 4)]
    /\ UNCHANGED notParse

\* for _ in range(qcount): name, offset = self._parse_name(data, offset); after
\* the loop the packet is returned (the byte strings here carry no records)
ParseQuestions ==
    /\ parser.pc = "questions"
    /\ IF parser.qleft = 0
       THEN /\ parse_result' = <<<<ParsedPacket(parser.data, parser.questions)>>>>
            /\ parser' = NotParsing
       ELSE /\ parser' = [parser EXCEPT !.pc = "name", !.labels = <<>>,
                                        !.original_offset = parser.offset,
                                        !.jumped = FALSE]
            /\ UNCHANGED parse_result
    /\ UNCHANGED notParse

\* _parse_name leaves its while loop: if jumped: offset = original_offset
NameDone(offset) ==
    [parser EXCEPT !.pc = "question", 
                   !.offset = IF parser.jumped THEN parser.original_offset ELSE offset]

\* one pass of "while offset < len(data)" in _parse_name
ParseNameStep ==
    /\ parser.pc = "name"
    /\ LET data == parser.data
           offset == parser.offset IN
       parser' =
         IF offset >= Len(data) THEN NameDone(offset)
         ELSE LET length == ByteAt(data, offset) IN
              IF length = 0 THEN NameDone(offset + 1)
              ELSE IF length >= 192        \* (length & 0xC0) == 0xC0
              THEN IF offset + 1 >= Len(data) THEN NameDone(offset)
                   ELSE [parser EXCEPT
                           !.original_offset = IF parser.jumped THEN @ ELSE offset + 2,
                           !.jumped = TRUE,
                           !.offset = (length % 64) * 256 + ByteAt(data, offset + 1)]
              ELSE IF offset + 1 + length > Len(data) THEN NameDone(offset + 1)
              ELSE [parser EXCEPT
                      !.labels = Append(@, Slice(data, offset + 1, offset + 1 + length)),
                      !.offset = offset + 1 + length]
    /\ UNCHANGED parse_result
    /\ UNCHANGED notParse

\* if offset + 4 > len(data): break; else the question is unpacked and kept
ParseQuestion ==
    /\ parser.pc = "question"
    /\ parser' =
         IF parser.offset + 4 > Len(parser.data)
         THEN [parser EXCEPT !.pc = "questions", !.qleft = 0]
         ELSE [parser EXCEPT
                 !.pc = "questions", !.qleft = @ - 1, !.offset = @ + 4,
                 !.questions = Append(@, [name |-> JoinDots(parser.labels),
                                          qtype |-> U16(parser.data, parser.offset),
                                          qclass |-> U16(parser.data, parser.offset + 2)])]
    /\ UNCHANGED parse_result
    /\ UNCHANGED notParse

\* the steps the interpreter takes inside a parse call
ParseRuns == ParseQuestions \/ ParseNameStep \/ ParseQuestion

ParseNext ==
    \/ \E data \in ParseArgs : ParseCall(data)
    \/ ParseQuestions
    \/ ParseNameStep
    \/ ParseQuestion

\* C28: DNSParser.parse terminates on every byte string and returns either a
\* packet or None without raising; a malformed name, including one whose
\* compression pointers form a cycle, is discarded rather than followed forever
C28_ParseReturns == (parser.pc # "idle") ~> (parser.pc = "idle")

(***************************************************************************)
(* KeywordMatcher: the keyword set loaded from config/keywords.json        *)
(***************************************************************************)
MaxFileKeywords == 2     \* bound on the number of keywords in the file
MaxKeywordCalls == 4     \* bound on the calls that change the keyword set

Str_suicide == <<"s", "u", "i", "c", "i", "d", "e">>    \* 'suicide'
Str_cutting_myself == <<"c", "u", "t", "t", "i", "n", "g", " ", "m", "y", "s", "e", "l", "f">>    \* 'cutting myself'
Str_end_my_life == <<"e", "n", "d", " ", "m", "y", " ", "l", "i", "f", "e">>    \* 'end my life'
Str_kill_myself == <<"k", "i", "l", "l", " ", "m", "y", "s", "e", "l", "f">>    \* 'kill myself'
Str_self_harm == <<"s", "e", "l", "f", " ", "h", "a", "r", "m">>    \* 'self harm'
Str_prevention == <<"p", "r", "e", "v", "e", "n", "t", "i", "o", "n">>    \* 'prevention'
Str_hotline == <<"h", "o", "t", "l", "i", "n", "e">>    \* 'hotline'
Str_awareness == <<"a", "w", "a", "r", "e", "n", "e", "s", "s">>    \* 'awareness'
Str_kys == <<"k", "y", "s">>    \* 'kys'
Str_kill_yourself == <<"k", "i", "l", "l", " ", "y", "o", "u", "r", "s", "e", "l", "f">>    \* 'kill yourself'
Str_everyone_hates_you == <<"e", "v", "e", "r", "y", "o", "n", "e", " ", "h", "a", "t", "e", "s", " ", "y", "o", "u">>    \* 'everyone hates you'
Str_go_die == <<"g", "o", " ", "d", "i", "e">>    \* 'go die'
Str_how_old_are_you == <<"h", "o", "w", " ", "o", "l", "d", " ", "a", "r", "e", " ", "y", "o", "u">>    \* 'how old are you'
Str_lets_meet == <<"l", "e", "t", "'", "s", " ", "m", "e", "e", "t">>    \* "let's meet"
Str_our_secret == <<"o", "u", "r", " ", "s", "e", "c", "r", "e", "t">>    \* 'our secret'
Str_pat_send_pic == <<"s", "e", "n", "d", " ", "(", "m", "e", " ", ")", "?", "(", "a", " ", ")", "?", "p", "i", "c", "(", "t", "u", "r", "e", ")", "?">>    \* 'send (me )?(a )?pic(ture)?'
Str_buy_weed == <<"b", "u", "y", " ", "w", "e", "e", "d">>    \* 'buy weed'
Str_drug_dealer == <<"d", "r", "u", "g", " ", "d", "e", "a", "l", "e", "r">>    \* 'drug dealer'
Str_molly == <<"m", "o", "l", "l", "y">>    \* 'molly'
Str_xanax == <<"x", "a", "n", "a", "x">>    \* 'xanax'
Str_pat_address == <<"\\", "d", "+", "\\", "s", "+", "\\", "w", "+", "\\", "s", "+", "(", "s", "t", "r", "e", "e", "t", "|", "s", "t", "|", "a", "v", "e", "n", "u", "e", "|", "a", "v", "e", "|", "r", "o", "a", "d", "|", "r", "d", "|", "d", "r", "i", "v", "e", "|", "d", "r", "|", "l", "a", "n", "e", "|", "l", "n", ")">>    \* '\\d+\\s+\\w+\\s+(street|st|avenue|ave|road|rd|drive|dr|lane|ln)'
Str_pat_phone == <<"\\", "b", "\\", "d", "{", "3", "}", "[", "-", ".", "]", "?", "\\", "d", "{", "3", "}", "[", "-", ".", "]", "?", "\\", "d", "{", "4", "}", "\\", "b">>    \* '\\b\\d{3}[-.]?\\d{3}[-.]?\\d{4}\\b'
Str_pat_ssn == <<"\\", "b", "\\", "d", "{", "3", "}", "-", "\\", "d", "{", "2", "}", "-", "\\", "d", "{", "4", "}", "\\", "b">>    \* '\\b\\d{3}-\\d{2}-\\d{4}\\b'
Str_X4nax_pls == <<"X", "4", "n", "a", "x", " ", "p", "l", "s">>    \* 'X4nax pls'
Str_mollys == <<"m", "o", "l", "l", "y", "s">>    \* 'mollys'
Str_ssn_text == <<"i", "d", " ", "1", "2", "3", "-", "4", "5", "-", "6", "7", "8", "9">>    \* 'id 123-45-6789'
Str_Send_a_pic == <<"S", "e", "n", "d", " ", "a", " ", "p", "i", "c">>    \* 'Send a pic'
Str_send_sp == <<"s", "e", "n", "d", " ">>    \* 'send '
Str_me_sp == <<"m", "e", " ">>    \* 'me '
Str_a_sp == <<"a", " ">>    \* 'a '
Str_pic == <<"p", "i", "c">>    \* 'pic'
Str_ture == <<"t", "u", "r", "e">>    \* 'ture'
Str_dash == <<"-">>    \* '-'

\* a keyword entry of the file: the fields read by Keyword.from_dict that
\* decide loading and matching, the others keeping their defaults
KeywordData(id, word, match_type, enabled) ==
    [id |-> id, word |-> word, match_type |-> match_type, enabled |-> enabled,
     exclude_words |-> <<>>]

KeywordPool ==
    { KeywordData("k1", Str_ab, "regex", TRUE),
      KeywordData("k2", Str_pat_bad, "regex", TRUE),
      KeywordData("k3", Str_xxx, "contains", TRUE),
      KeywordData("k4", Str_EA_com, "contains", FALSE) }

KeywordTexts ==
    {Str_Ab, Str_url_EA_xxx, Str_X4nax_pls, Str_mollys, Str_ssn_text, Str_Send_a_pic}

\* PREDEFINED_KEYWORDS as the module defines it
PREDEFINED_KEYWORDS ==
    [self_harm |->
        << [KeywordData("sh_suicide", Str_suicide, "contains", TRUE)
               EXCEPT !.exclude_words = <<Str_prevention, Str_hotline, Str_awareness>>],
           KeywordData("sh_cutting", Str_cutting_myself, "fuzzy", TRUE),
           KeywordData("sh_end_life", Str_end_my_life, "fuzzy", TRUE),
           KeywordData("sh_kill_myself", Str_kill_myself, "fuzzy", TRUE),
           KeywordData("sh_self_harm", Str_self_harm, "fuzzy", TRUE) >>,
     bullying |->
        << KeywordData("bully_kys", Str_kys, "exact", TRUE),
           KeywordData("bully_kill_yourself", Str_kill_yourself, "fuzzy", TRUE),
           KeywordData("bully_hate_you", Str_everyone_hates_you, "contains", TRUE),
           KeywordData("bully_die", Str_go_die, "fuzzy", TRUE) >>,
     predator |->
        << KeywordData("pred_age", Str_how_old_are_you, "contains", TRUE),
           KeywordData("pred_meet", Str_lets_meet, "contains", TRUE),
           KeywordData("pred_secret", Str_our_secret, "contains", TRUE),
           KeywordData("pred_send_pic", Str_pat_send_pic, "regex", TRUE) >>,
     drugs |->
        << KeywordData("drug_buy", Str_buy_weed, "contains", TRUE),
           KeywordData("drug_dealer", Str_drug_dealer, "fuzzy", TRUE),
           KeywordData("drug_molly", Str_molly, "exact", TRUE),
           KeywordData("drug_xanax", Str_xanax, "fuzzy", TRUE) >>,
     personal_info |->
        << KeywordData("pii_address", Str_pat_address, "regex", TRUE),
           KeywordData("pii_phone", Str_pat_phone, "regex", TRUE),
           KeywordData("pii_ssn", Str_pat_ssn, "regex", TRUE) >>]

\* PREDEFINED_KEYWORDS[category] as it stands, enabled being the one field the
\* program ever assigns on these objects; none for a category the dictionary
\* does not list
PredefinedKeywords(category) ==
    IF category \in DOMAIN PREDEFINED_KEYWORDS
    THEN [i \in 1..Len(PREDEFINED_KEYWORDS[category]) |->
            [PREDEFINED_KEYWORDS[category][i]
                EXCEPT !.enabled = PREDEFINED_KEYWORDS[category][i].id
                                       \notin kw_predefined_disabled]]
    ELSE <<>>

\* AlertCategory, in the order of the enumeration
AlertCategories ==
    <<"self_harm", "violence", "bullying", "drugs", "sexual", "predator",
      "personal_info", "profanity", "custom">>

KeywordCategoryArgs == {"self_harm", "drugs", "personal_info", "custom"}

\* the Keyword objects a caller can hand to add_keyword: those whose
\* construction did not raise
KeywordObjects == { kw \in KeywordPool : kw.match_type # "regex" \/ RegexCompiles(kw.word) }

KeywordIdArgs == {"k1", "k4", "drug_xanax"}

\* the files a user can supply: keyword entries with distinct ids
KeywordFiles ==
    UNION { { f \in [1..n -> KeywordPool] :
                \A i, j \in 1..n : f[i].id = f[j].id => i = j } :
            n \in 0..MaxFileKeywords }

\* Keyword.__post_init__: a regex keyword compiles its word and raises re.error
\* when it does not compile
PostInitRaises(data) == data.match_type = "regex" /\ ~RegexCompiles(data.word)

\* self.keywords[keyword.id] = keyword on an insertion-ordered dict
KeywordPut(dict, kw) ==
    IF \E i \in 1..Len(dict) : dict[i].id = kw.id
    THEN [i \in 1..Len(dict) |-> IF dict[i].id = kw.id THEN kw ELSE dict[i]]
    ELSE Append(dict, kw)

\* the for loop of _load_keywords from entry i on: the first entry whose
\* construction raises ends the loop, the exception being caught outside it
RECURSIVE LoadFrom(_, _, _)
LoadFrom(file, i, dict) ==
    IF i > Len(file) THEN [keywords |-> dict, printed |-> <<>>]
    ELSE IF PostInitRaises(file[i])
         THEN [keywords |-> dict, printed |-> <<"Failed to load keywords">>]
         ELSE LoadFrom(file, i + 1, KeywordPut(dict, file[i]))

KeywordsInit ==
    /\ kw_file \in KeywordFiles
    /\ kw_pc = "none"
    /\ kw_keywords = <<>>
    /\ kw_printed = <<>>
    /\ kw_matches = <<>>
    /\ kw_calls = 0
    /\ kw_predefined_disabled = {}
    /\ kw_shared = {}

\* KeywordMatcher.__init__: self.keywords = {} and _load_keywords()
LoadKeywords ==
    /\ kw_pc = "none"
    /\ kw_pc' = "loaded"
    /\ kw_keywords' = LoadFrom(kw_file, 1, <<>>).keywords
    /\ kw_printed' = LoadFrom(kw_file, 1, <<>>).printed
    /\ UNCHANGED <<kw_file, kw_matches, kw_calls, kw_predefined_disabled, kw_shared>>
    /\ UNCHANGED notKeywords

\* _save_keywords: the file is rewritten with to_dict() of every keyword of
\* self.keywords, in dict order
SaveKeywords(dict) ==
    [i \in 1..Len(dict) |->
        [id |-> dict[i].id, word |-> dict[i].word, match_type |-> dict[i].match_type,
         enabled |-> dict[i].enabled, exclude_words |-> dict[i].exclude_words]]

\* a call that changes the keyword set and saves it
KeywordsSaved(dict) ==
    /\ kw_keywords' = dict
    /\ kw_file' = SaveKeywords(dict)

HasKeyword(dict, id) == \E i \in 1..Len(dict) : dict[i].id = id

\* add_keyword(keyword), with a Keyword object of the caller's
MatcherAddKeyword(kw) ==
    /\ kw_pc = "loaded"
    /\ kw_calls < MaxKeywordCalls
    /\ kw_calls' = kw_calls + 1
    /\ KeywordsSaved(KeywordPut(kw_keywords, kw))
    /\ kw_shared' = kw_shared \ {kw.id}
    /\ UNCHANGED <<kw_pc, kw_printed, kw_matches, kw_predefined_disabled>>
    /\ UNCHANGED notKeywords

\* remove_keyword(keyword_id): an id that is not there changes nothing and
\* nothing is saved
MatcherRemoveKeyword(id) ==
    /\ kw_pc = "loaded"
    /\ kw_calls < MaxKeywordCalls
    /\ kw_calls' = kw_calls + 1
    /\ IF HasKeyword(kw_keywords, id)
       THEN KeywordsSaved(SelectSeq(kw_keywords, LAMBDA kw : kw.id # id))
       ELSE UNCHANGED <<kw_keywords, kw_file>>
    /\ kw_shared' = kw_shared \ {id}
    /\ UNCHANGED <<kw_pc, kw_printed, kw_matches, kw_predefined_disabled>>
    /\ UNCHANGED notKeywords

\* self.keywords[keyword_id].enabled = enabled
WithEnabled(dict, id, enabled) ==
    [i \in 1..Len(dict) |->
        IF dict[i].id = id THEN [dict[i] EXCEPT !.enabled = enabled] ELSE dict[i]]

\* the assignment as PREDEFINED_KEYWORDS sees it: the Keyword that
\* load_predefined stored is the module's own object
SharedWithEnabled(id, enabled) ==
    IF id \in kw_shared
    THEN IF enabled THEN kw_predefined_disabled \ {id} ELSE kw_predefined_disabled \cup {id}
    ELSE kw_predefined_disabled

\* enable_keyword(keyword_id): an id that is not there changes nothing and
\* nothing is saved
EnableKeyword(id) ==
    /\ kw_pc = "loaded"
    /\ kw_calls < MaxKeywordCalls
    /\ kw_calls' = kw_calls + 1
    /\ IF HasKeyword(kw_keywords, id)
       THEN /\ KeywordsSaved(WithEnabled(kw_keywords, id, TRUE))
            /\ kw_predefined_disabled' = SharedWithEnabled(id, TRUE)
       ELSE UNCHANGED <<kw_keywords, kw_file, kw_predefined_disabled>>
    /\ UNCHANGED <<kw_pc, kw_printed, kw_matches, kw_shared>>
    /\ UNCHANGED notKeywords

\* disable_keyword(keyword_id)
DisableKeyword(id) ==
    /\ kw_pc = "loaded"
    /\ kw_calls < MaxKeywordCalls
    /\ kw_calls' = kw_calls + 1
    /\ IF HasKeyword(kw_keywords, id)
       THEN /\ KeywordsSaved(WithEnabled(kw_keywords, id, FALSE))
            /\ kw_predefined_disabled' = SharedWithEnabled(id, FALSE)
       ELSE UNCHANGED <<kw_keywords, kw_file, kw_predefined_disabled>>
    /\ UNCHANGED <<kw_pc, kw_printed, kw_matches, kw_shared>>
    /\ UNCHANGED notKeywords

\* the for loop of load_predefined: a predefined keyword is stored unless its
\* id is there already
RECURSIVE AddPredefined(_, _)
AddPredefined(list, dict) ==
    IF list = <<>> THEN dict
    ELSE AddPredefined(Tail(list),
                       IF HasKeyword(dict, Head(list).id)
                       THEN dict ELSE Append(dict, Head(list)))

\* the ids a call stored that were not there before
StoredIds(dict) ==
    { dict[i].id : i \in { j \in 1..Len(dict) : ~HasKeyword(kw_keywords, dict[j].id) } }

\* load_predefined(category): a category PREDEFINED_KEYWORDS does not list
\* returns 0 before anything is saved
LoadPredefined(category) ==
    /\ kw_pc = "loaded"
    /\ kw_calls < MaxKeywordCalls
    /\ kw_calls' = kw_calls + 1
    /\ IF category \notin DOMAIN PREDEFINED_KEYWORDS
       THEN UNCHANGED <<kw_keywords, kw_file, kw_shared>>
       ELSE /\ KeywordsSaved(AddPredefined(PredefinedKeywords(category), kw_keywords))
            /\ kw_shared' = kw_shared \cup
                                StoredIds(AddPredefined(PredefinedKeywords(category), kw_keywords))
    /\ UNCHANGED <<kw_pc, kw_printed, kw_matches, kw_predefined_disabled>>
    /\ UNCHANGED notKeywords

\* the for loop of load_all_predefined: load_predefined for every member of
\* AlertCategory in turn
RECURSIVE AddAllPredefined(_, _)
AddAllPredefined(categories, dict) ==
    IF categories = <<>> THEN dict
    ELSE AddAllPredefined(Tail(categories),
                          AddPredefined(PredefinedKeywords(Head(categories)), dict))

\* load_all_predefined()
LoadAllPredefined ==
    /\ kw_pc = "loaded"
    /\ kw_calls < MaxKeywordCalls
    /\ kw_calls' = kw_calls + 1
    /\ KeywordsSaved(AddAllPredefined(AlertCategories, kw_keywords))
    /\ kw_shared' = kw_shared \cup StoredIds(AddAllPredefined(AlertCategories, kw_keywords))
    /\ UNCHANGED <<kw_pc, kw_printed, kw_matches, kw_predefined_disabled>>
    /\ UNCHANGED notKeywords

\* the characters \w matches
WordChars ==
    {LowerLetters[i] : i \in 1..Len(LowerLetters)}
        \cup {UpperLetters[i] : i \in 1..Len(UpperLetters)}
        \cup {"0", "1", "2", "3", "4", "5", "6", "7", "8", "9", "_"}

IsWordChar(c) == c \in WordChars

\* \b matches between position p and p + 1 of t: a word character on one side
\* only, the ends of the text counting as none
WordBoundaryAt(t, p) ==
    (p >= 1 /\ IsWordChar(t[p])) # (p < Len(t) /\ IsWordChar(t[p + 1]))

\* re.compile(rf'\b{re.escape(word)}\b', re.IGNORECASE).search(text): the word,
\* with a word boundary on each side of it
WordAt(w, t) ==
    \E s \in 0..(Len(t) - Len(w)) :
        /\ SubSeq(t, s + 1, s + Len(w)) = w
        /\ WordBoundaryAt(t, s)
        /\ WordBoundaryAt(t, s + Len(w))

ExactSearch(word, text) == WordAt(StrLower(word), StrLower(text))

\* leetspeak_map of _fuzzy_match: the characters that stand for a letter
LeetClass(c) ==
    CASE c = "a" -> {"a", "@", "4"}
      [] c = "e" -> {"e", "3"}
      [] c = "i" -> {"i", "1", "!"}
      [] c = "o" -> {"o", "0"}
      [] c = "s" -> {"s", "$", "5"}
      [] c = "t" -> {"t", "7", "+"}
      [] c = "l" -> {"l", "1"}
      [] c = "b" -> {"b", "8"}
      [] OTHER -> {c}

\* _fuzzy_match: the lowered word with each letter replaced by its class,
\* searched in the text without regard to case
LeetAt(w, t) ==
    \E s \in 0..(Len(t) - Len(w)) :
        \A i \in 1..Len(w) : t[s + i] \in LeetClass(w[i])

FuzzyMatch(word, text) == LeetAt(StrLower(word), StrLower(text))

\* the parts of a compiled pattern: a literal, an optional group (s)?, a group
\* of alternatives, a character class c{n}, c+ or c?, and \b
PatternItem(kind, s, alternatives, class, n) ==
    [kind |-> kind, s |-> s, alternatives |-> alternatives, class |-> class, n |-> n]
Lit(s) == PatternItem("lit", s, {}, "", 0)
OptGroup(s) == PatternItem("opt", s, {}, "", 0)
AltGroup(alternatives) == PatternItem("alt", <<>>, alternatives, "", 0)
ClassTimes(class, n) == PatternItem("times", <<>>, {}, class, n)
ClassPlus(class) == PatternItem("plus", <<>>, {}, class, 0)
ClassOpt(class) == PatternItem("optclass", <<>>, {}, class, 0)
WordBoundary == PatternItem("b", <<>>, {}, "", 0)

\* the character classes \d, \s, \w and [-.]
InClass(class, c) ==
    CASE class = "d" -> c \in {"0", "1", "2", "3", "4", "5", "6", "7", "8", "9"}
      [] class = "s" -> c \in Whitespace
      [] class = "w" -> IsWordChar(c)
      [] OTHER -> c \in {"-", "."}

\* re.compile(word, re.IGNORECASE) for the patterns of PREDEFINED_KEYWORDS; any
\* other pattern that compiles is taken as the literal it is
KeywordPattern(word) ==
    CASE word = Str_pat_send_pic ->
            <<Lit(Str_send_sp), OptGroup(Str_me_sp), OptGroup(Str_a_sp), Lit(Str_pic),
              OptGroup(Str_ture)>>
      [] word = Str_pat_address ->
            <<ClassPlus("d"), ClassPlus("s"), ClassPlus("w"), ClassPlus("s"),
              AltGroup({<<"s", "t", "r", "e", "e", "t">>,
                        <<"s", "t">>,
                        <<"a", "v", "e", "n", "u", "e">>,
                        <<"a", "v", "e">>,
                        <<"r", "o", "a", "d">>,
                        <<"r", "d">>,
                        <<"d", "r", "i", "v", "e">>,
                        <<"d", "r">>,
                        <<"l", "a", "n", "e">>,
                        <<"l", "n">>})>>
      [] word = Str_pat_phone ->
            <<WordBoundary, ClassTimes("d", 3), ClassOpt("-."), ClassTimes("d", 3),
              ClassOpt("-."), ClassTimes("d", 4), WordBoundary>>
      [] word = Str_pat_ssn ->
            <<WordBoundary, ClassTimes("d", 3), Lit(Str_dash), ClassTimes("d", 2),
              Lit(Str_dash), ClassTimes("d", 4), WordBoundary>>
      [] OTHER -> <<Lit(StrLower(word))>>

\* the literal s stands in t from position p on
LitAt(t, p, s) == p + Len(s) <= Len(t) /\ SubSeq(t, p + 1, p + Len(s)) = s

\* the k characters of t after position p are of the class
ClassRun(t, p, k, class) ==
    p + k <= Len(t) /\ \A j \in 1..k : InClass(class, t[p + j])

\* the positions at which a match of the item that begins at p can end
ItemEnds(item, t, p) ==
    CASE item.kind = "lit" -> IF LitAt(t, p, item.s) THEN {p + Len(item.s)} ELSE {}
      [] item.kind = "opt" ->
            {p} \cup (IF LitAt(t, p, item.s) THEN {p + Len(item.s)} ELSE {})
      [] item.kind = "alt" -> { p + Len(a) : a \in { x \in item.alternatives : LitAt(t, p, x) } }
      [] item.kind = "times" -> IF ClassRun(t, p, item.n, item.class) THEN {p + item.n} ELSE {}
      [] item.kind = "plus" ->
            { p + k : k \in { n \in 1..(Len(t) - p) : ClassRun(t, p, n, item.class) } }
      [] item.kind = "optclass" ->
            {p} \cup (IF ClassRun(t, p, 1, item.class) THEN {p + 1} ELSE {})
      [] OTHER -> IF WordBoundaryAt(t, p) THEN {p} ELSE {}

RECURSIVE PatternEnds(_, _, _)
PatternEnds(items, t, starts) ==
    IF items = <<>> THEN starts
    ELSE PatternEnds(Tail(items), t, UNION { ItemEnds(Head(items), t, p) : p \in starts })

\* self._compiled_pattern.search(text) of a regex keyword
PatternAt(items, t) == \E p \in 0..Len(t) : PatternEnds(items, t, {p}) # {}

RegexSearch(word, text) == PatternAt(KeywordPattern(word), StrLower(text))

\* Keyword.matches: a disabled keyword never matches, nor does any keyword in a
\* text that holds one of its exclude_words; contains looks the lowered word up
\* in the lowered text, regex and exact search with the compiled pattern, fuzzy
\* with the leetspeak pattern
KeywordMatches(kw, text) ==
    /\ kw.enabled
    /\ \A i \in 1..Len(kw.exclude_words) :
          ~StrContains(StrLower(text), StrLower(kw.exclude_words[i]))
    /\ CASE kw.match_type = "contains" -> StrContains(StrLower(text), StrLower(kw.word))
         [] kw.match_type = "exact" -> ExactSearch(kw.word, text)
         [] kw.match_type = "fuzzy" -> FuzzyMatch(kw.word, text)
         [] OTHER -> RegexSearch(kw.word, text)

\* the ids of a sequence of keywords
KeywordIds(list) == [i \in 1..Len(list) |-> list[i].id]

\* KeywordMatcher.match: the loaded keywords that match, in dict order
KeywordMatch(text) ==
    /\ kw_pc = "loaded"
    /\ kw_matches' = KeywordIds(SelectSeq(kw_keywords, LAMBDA kw : KeywordMatches(kw, text)))
    /\ UNCHANGED <<kw_file, kw_pc, kw_keywords, kw_printed, kw_calls, kw_predefined_disabled,
                   kw_shared>>
    /\ UNCHANGED notKeywords

KeywordsNext ==
    \/ LoadKeywords
    \/ \E kw \in KeywordObjects : MatcherAddKeyword(kw)
    \/ \E id \in KeywordIdArgs : MatcherRemoveKeyword(id)
    \/ \E id \in KeywordIdArgs : EnableKeyword(id)
    \/ \E id \in KeywordIdArgs : DisableKeyword(id)
    \/ \E category \in KeywordCategoryArgs : LoadPredefined(category)
    \/ LoadAllPredefined
    \/ \E text \in KeywordTexts : KeywordMatch(text)

\* the loaded keyword of an id, as a sequence of length 0 or 1
LoadedKeyword(id) == SelectSeq(kw_keywords, LAMBDA kw : kw.id = id)

\* C29: once the keyword set is loaded, every keyword of the file whose regular
\* expression compiles is loaded with the enabled flag the file gives it, a
\* keyword whose expression does not compile is not active and its failure
\* was printed, and no match result names such a keyword
C29_BadRegexIsolated ==
    kw_pc = "loaded" =>
        /\ \A i \in 1..Len(kw_file) :
             IF PostInitRaises(kw_file[i])
             THEN /\ \A j \in 1..Len(kw_keywords) :
                        kw_keywords[j].id = kw_file[i].id => ~kw_keywords[j].enabled
                  /\ kw_printed # <<>>
                  /\ \A j \in 1..Len(kw_matches) : kw_matches[j] # kw_file[i].id
             ELSE LoadedKeyword(kw_file[i].id) = <<kw_file[i]>>

(***************************************************************************)
(* DatabaseManager: table traffic and its full-text index traffic_fts      *)
(***************************************************************************)
MaxIndexed == 3          \* bound on the number of index entries ever written
MaxDbTime == 2           \* bound on the clock, in days

TrafficIds == {"t1", "t2"}

\* the indexed columns of an entry: url, host, request_body, response_body
Doc(url, host, request_body, response_body) ==
    [url |-> url, host |-> host, request_body |-> request_body,
     response_body |-> response_body]

DocPool == { Doc(Str_url_b, Str_b_io, Str_ab, Str_xxx),
             Doc(Str_url_EA_xxx, Str_EA_com, Str_xxx, Str_ab) }

CleanupDays == {0, 1}

\* _init_database on a new file: both tables empty
DbInit ==
    /\ traffic = {}
    /\ traffic_fts = {}
    /\ db_clock = 0
    /\ db_result = <<>>

\* the largest element of a set of naturals, 0 for the empty set
MaxOf(S) == IF S = {} THEN 0 ELSE CHOOSE n \in S : \A m \in S : m <= n

\* the rowid SQLite gives a row inserted without one: one past the largest
NewRowid(rows) == MaxOf({r.rowid : r \in rows}) + 1

\* trigger traffic_ai: INSERT INTO traffic_fts(id, url, ...), no rowid given, so
\* the index takes a rowid of its own
TrafficAi(fts, new) ==
    fts \cup {[rowid |-> NewRowid(fts), id |-> new.id, doc |-> new.doc]}

\* (variant: the delete command names old.rowid)
TrafficAd_OldRowid(fts, old) == {e \in fts : e.rowid # old.rowid}
\* trigger traffic_ad: the 'delete' command is given no rowid, so it addresses
\* rowid 0 (the value of NULL) and removes the entry stored there, if any
TrafficAd(fts, old) == {e \in fts : e.rowid # 0}

\* the index after trigger traffic_ad ran for each deleted row
RECURSIVE TrafficAdAll(_, _)
TrafficAdAll(fts, deleted) ==
    IF deleted = {} THEN fts
    ELSE LET old == CHOOSE r \in deleted : TRUE
         IN TrafficAdAll(TrafficAd(fts, old), deleted \ {old})

\* add_traffic_entry: INSERT INTO traffic and its trigger in one transaction,
\* committed together; a duplicate id raises IntegrityError and the
\* connection is rolled back
AddTrafficEntry(id, timestamp, doc) ==
    /\ Cardinality(traffic_fts) < MaxIndexed
    /\ IF \E r \in traffic : r.id = id
       THEN /\ db_result' = <<"IntegrityError">>
            /\ UNCHANGED <<traffic, traffic_fts>>
       ELSE LET new == [rowid |-> NewRowid(traffic), id |-> id,
                        timestamp |-> timestamp, doc |-> doc]
            IN /\ traffic' = traffic \cup {new}
               /\ traffic_fts' = TrafficAi(traffic_fts, new)
               /\ db_result' = <<"True">>
    /\ UNCHANGED db_clock
    /\ UNCHANGED notDb

\* cleanup_old_data: DELETE FROM traffic WHERE timestamp < cutoff, its trigger
\* once per deleted row, one commit
CleanupOldData(days) ==
    LET cutoff == db_clock - days
        deleted == {r \in traffic : r.timestamp < cutoff}
    IN /\ traffic' = traffic \ deleted
       /\ traffic_fts' = TrafficAdAll(traffic_fts, deleted)
       /\ db_result' = <<"traffic_deleted", Cardinality(deleted)>>
       /\ UNCHANGED db_clock
       /\ UNCHANGED notDb

\* time passes
DbTick ==
    /\ db_clock < MaxDbTime
    /\ db_clock' = db_clock + 1
    /\ UNCHANGED <<traffic, traffic_fts, db_result>>
    /\ UNCHANGED notDb

DbNext ==
    \/ \E id \in TrafficIds, doc \in DocPool : AddTrafficEntry(id, db_clock, doc)
    \/ \E days \in CleanupDays : CleanupOldData(days)
    \/ DbTick

\* the index entries the rows of traffic call for
IndexOf(rows) == {[rowid |-> r.rowid, id |-> r.id, doc |-> r.doc] : r \in rows}

\* C30: after any sequence of inserts and cleanups the full-text index holds
\* exactly one entry per existing traffic row, carrying its url, host, request
\* body and response body, and no entry for a deleted row
C30_IndexMatchesRows == traffic_fts = IndexOf(traffic)

(***************************************************************************)
(* Serialisation: Schedule, Keyword and the policy of the BlockingEngine,  *)
(* each written as a JSON document and read back.  A document keeps lists  *)
(* where the object has sets, enum values where it has enum members, and   *)
(* 'HH:MM' strings where a TimeRange has numbers.                          *)
(***************************************************************************)
\* list(s) of a set: its elements once each, in whatever order the set yields
Orderings(S) ==
    { f \in [1..Cardinality(S) -> S] : \A i, j \in 1..Cardinality(S) : f[i] = f[j] => i = j }

\* set(l) of a list
SetOf(l) == {l[i] : i \in 1..Len(l)}

DigitChars == <<"0", "1", "2", "3", "4", "5", "6", "7", "8", "9">>

\* f"{n:02d}" for 0 <= n < 100
TwoDigits(n) == <<DigitChars[(n \div 10) + 1], DigitChars[(n % 10) + 1]>>

\* int(s) of a string of decimal digits
RECURSIVE ParseInt(_)
ParseInt(s) ==
    IF s = <<>> THEN 0
    ELSE ParseInt(SubSeq(s, 1, Len(s) - 1)) * 10
         + (CHOOSE d \in 0..9 : DigitChars[d + 1] = s[Len(s)])

\* s.split(":") of a string holding one colon
SplitColon(s) ==
    LET i == CHOOSE j \in 1..Len(s) : s[j] = ":" IN
    <<SubSeq(s, 1, i - 1), SubSeq(s, i + 1, Len(s))>>

\* TimeRange.to_dict
TimeRangeToDict(r) ==
    [start |-> TwoDigits(r.start_hour) \o <<":">> \o TwoDigits(r.start_minute),
     end   |-> TwoDigits(r.end_hour) \o <<":">> \o TwoDigits(r.end_minute)]

\* TimeRange.from_dict
TimeRangeFromDict(data) ==
    TimeRange(ParseInt(SplitColon(data.start)[1]), ParseInt(SplitColon(data.start)[2]),
              ParseInt(SplitColon(data.end)[1]), ParseInt(SplitColon(data.end)[2]))

\* DayOfWeek: day.name and DayOfWeek[day_name]
DayNames == <<"MONDAY", "TUESDAY", "WEDNESDAY", "THURSDAY", "FRIDAY", "SATURDAY", "SUNDAY">>
DayName(day) == DayNames[day + 1]
DayOfName(name) == CHOOSE day \in 0..6 : DayNames[day + 1] = name

\* Schedule.to_dict: the documents it can give, one per order of the two sets
ScheduleToDict(sch) ==
    { [id |-> sch.id, schedule_type |-> sch.schedule_type, enabled |-> sch.enabled,
       categories |-> cats, domains |-> doms,
       time_ranges |-> [name \in {DayName(day) : day \in DOMAIN sch.time_ranges} |->
                          [i \in 1..Len(sch.time_ranges[DayOfName(name)]) |->
                             TimeRangeToDict(sch.time_ranges[DayOfName(name)][i])]],
       start_date |-> sch.start_date, end_date |-> sch.end_date,
       priority |-> sch.priority] :
      cats \in Orderings(sch.categories), doms \in Orderings(sch.domains) }

\* Schedule.from_dict
ScheduleFromDict(data) ==
    [id |-> data.id, schedule_type |-> data.schedule_type, enabled |-> data.enabled,
     categories |-> SetOf(data.categories), domains |-> SetOf(data.domains),
     time_ranges |-> [day \in {DayOfName(name) : name \in DOMAIN data.time_ranges} |->
                        [i \in 1..Len(data.time_ranges[DayName(day)]) |->
                           TimeRangeFromDict(data.time_ranges[DayName(day)][i])]],
     start_date |-> data.start_date, end_date |-> data.end_date,
     priority |-> data.priority]

\* re.compile(pattern, flags): the pattern object, equal to another when
\* pattern and flags are
Compile(pattern, flags) == [pattern |-> pattern, flags |-> flags]

\* Keyword(...) with its __post_init__: regex and exact keywords carry a
\* compiled pattern, ignoring case unless case_sensitive
Keyword(id, word, match_type, enabled, case_sensitive) ==
    [id |-> id, word |-> word, match_type |-> match_type, enabled |-> enabled,
     case_sensitive |-> case_sensitive,
     compiled_pattern |->
         IF match_type = "regex"
         THEN <<Compile(word, IF case_sensitive THEN "" ELSE "IGNORECASE")>>
         ELSE IF match_type = "exact"
         THEN <<Compile(<<"\\", "b">> \o word \o <<"\\", "b">>,
                        IF case_sensitive THEN "" ELSE "IGNORECASE")>>
         ELSE <<>>]

\* Keyword.to_dict: the compiled pattern is not written
KeywordToDict(kw) ==
    [id |-> kw.id, word |-> kw.word, match_type |-> kw.match_type,
     enabled |-> kw.enabled, case_sensitive |-> kw.case_sensitive]

\* Keyword.from_dict
\* (variant: case_sensitive is not read and keeps its default)
KeywordFromDict_DefaultCase(data) ==
    Keyword(data.id, data.word, data.match_type, data.enabled, FALSE)
KeywordFromDict(data) ==
    Keyword(data.id, data.word, data.match_type, data.enabled, data.case_sensitive)

\* the policy a BlockingEngine holds in memory
Policy(bd, wd, bc, bk, up, cr) ==
    [blocked_domains |-> bd, whitelisted_domains |-> wd, blocked_categories |-> bc,
     blocked_keywords |-> bk, url_patterns |-> up, custom_rules |-> cr]

\* _save_config: the documents it can write, one per order of the three sets;
\* categories by value, url patterns by their source
SaveConfigDocs(policy) ==
    { [blocked_domains |-> bd, whitelisted_domains |-> wd, blocked_categories |-> bc,
       blocked_keywords |-> policy.blocked_keywords,
       url_patterns |-> [i \in 1..Len(policy.url_patterns) |-> policy.url_patterns[i].pattern],
       custom_rules |-> policy.custom_rules] :
      bd \in Orderings(policy.blocked_domains),
      wd \in Orderings(policy.whitelisted_domains),
      bc \in Orderings(policy.blocked_categories) }

\* _load_config into a new engine: unknown categories and patterns that do not
\* compile are skipped, rules are keyed by id
RECURSIVE RulesById(_, _)
RulesById(rules, dict) ==
    IF rules = <<>> THEN dict
    ELSE RulesById(Tail(rules),
                   IF \E i \in 1..Len(dict) : dict[i].id = Head(rules).id
                   THEN [i \in 1..Len(dict) |->
                           IF dict[i].id = Head(rules).id THEN Head(rules) ELSE dict[i]]
                   ELSE Append(dict, Head(rules)))

LoadConfigDoc(data) ==
    Policy(SetOf(data.blocked_domains), SetOf(data.whitelisted_domains),
           {GetCategory(c) : c \in SetOf(data.blocked_categories)} \ {NoCategory},
           data.blocked_keywords,
           [i \in 1..Len(SelectSeq(data.url_patterns, RegexCompiles)) |->
               Compile(SelectSeq(data.url_patterns, RegexCompiles)[i], "IGNORECASE")],
           RulesById(data.custom_rules, <<>>))

\* the objects serialised
MaxSerialised == 2       \* bound on the size of each set and list of a policy

RtSchedules == {Homework, Night, Bedtime, Alpha,
                Schedule("mixed", "allow_range", {Str_gaming, Str_adult}, {Str_b_io, Str_ea_com},
                         [d \in {Tuesday} |-> <<TimeRange(9, 5, 23, 59), TimeRange(0, 0, 0, 30)>>], 2)}

RtKeywords ==
    { Keyword("k1", Str_ab, mt, en, cs) :
        mt \in {"exact", "contains", "regex", "fuzzy"}, en \in BOOLEAN, cs \in BOOLEAN }

\* policies an engine reaches through its operations: sets of lowered domains,
\* categories, keywords, patterns compiled with re.I, rules
RtPolicies ==
    { Policy(bd, wd, bc, bk, up, cr) :
        bd \in {S \in SUBSET {Str_ea_com, Str_b_io, Str_cam4_com} : Cardinality(S) <= MaxSerialised},
        wd \in {{}, {Str_b_io}},
        bc \in {S \in SUBSET CategoryValues : Cardinality(S) <= MaxSerialised},
        bk \in {<<>>, <<Str_xxx, Str_Ab>>},
        up \in {<<>>, <<Compile(Str_pat_X, "IGNORECASE")>>},
        cr \in {<<>>, <<BlockRule("r1", "domain", Str_EA_com, TRUE),
                        BlockRule("r2", "keyword", Str_xxx, FALSE)>>} }

RtInit ==
    /\ rt_kind \in {"schedule", "keyword", "policy"}
    /\ rt_input \in CASE rt_kind = "schedule" -> RtSchedules
                      [] rt_kind = "keyword" -> RtKeywords
                      [] OTHER -> RtPolicies
    /\ rt_doc = <<>>
    /\ rt_output = <<>>

RtIdle == RtInit /\ rt_kind = "keyword" /\ rt_input = Keyword("k1", Str_ab, "contains", TRUE, FALSE)

\* to_dict / _save_config, through json.dumps and json.loads
Serialise ==
    /\ rt_doc = <<>>
    /\ \E doc \in CASE rt_kind = "schedule" -> ScheduleToDict(rt_input)
                    [] rt_kind = "keyword" -> {KeywordToDict(rt_input)}
                    [] OTHER -> SaveConfigDocs(rt_input) :
          rt_doc' = <<doc>>
    /\ UNCHANGED <<rt_kind, rt_input, rt_output>>
    /\ UNCHANGED notRt

\* from_dict / _load_config
Deserialise ==
    /\ rt_doc # <<>>
    /\ rt_output = <<>>
    /\ rt_output' = <<CASE rt_kind = "schedule" -> ScheduleFromDict(rt_doc[1])
                        [] rt_kind = "keyword" -> KeywordFromDict(rt_doc[1])
                        [] OTHER -> LoadConfigDoc(rt_doc[1])>>
    /\ UNCHANGED <<rt_kind, rt_input, rt_doc>>
    /\ UNCHANGED notRt

RtNext ==
    \/ Serialise
    \/ Deserialise

\* C31: what from_dict builds from to_dict's document of a Schedule or a Keyword
\* equals the object serialised, and the policy _load_config reads equals the
\* policy _save_config wrote
C31_RoundTripEqual == rt_output # <<>> => rt_output[1] = rt_input

\* a schedule with two categories, two domains and two ranges, a case-sensitive
\* regex keyword and a policy with every part filled have each come back
C31_Witness ==
    /\ rt_output # <<>>
    /\ \/ rt_kind = "schedule" /\ rt_input.id = "mixed"
          /\ rt_doc[1].categories = <<Str_gaming, Str_adult>>
       \/ rt_kind = "keyword" /\ rt_input.match_type = "regex" /\ rt_input.case_sensitive
       \/ rt_kind = "policy" /\ Cardinality(rt_input.blocked_domains) = 2
          /\ rt_input.url_patterns # <<>> /\ rt_input.custom_rules # <<>>
          /\ Cardinality(rt_input.blocked_categories) = 2

(***************************************************************************)
(* Notifier: quiet hours, rate limiting, the queue and its sender thread   *)
(***************************************************************************)
MaxNotifications == 3    \* bound on the notifications accepted
MaxSenders == 2          \* bound on the _sender_loop threads created

DaySeconds == 86400
HourSeconds == 3600

\* the instants at which datetime.now() is read, in seconds from a midnight
NotifierInstants ==
    <<0, 10, 40, HourSeconds + 50, 12 * HourSeconds, 17 * HourSeconds,
      23 * HourSeconds, DaySeconds + 20>>

NotifierNow == NotifierInstants[n_clock]

NotifyKeys == {"a", "b"}

SeverityOrder == <<"low", "medium", "high", "critical">>
SeverityIndex(s) == CHOOSE i \in 1..Len(SeverityOrder) : SeverityOrder[i] = s
NotifySeverities == {"low", "medium", "critical"}

\* NotificationConfig: the fields the checks of notify() read
NotificationConfig(quiet_start_hour, quiet_end_hour, cooldown_seconds, max_per_hour) ==
    [enabled |-> TRUE, min_severity |-> "medium",
     quiet_start_hour |-> quiet_start_hour, quiet_end_hour |-> quiet_end_hour,
     cooldown_seconds |-> cooldown_seconds, max_per_hour |-> max_per_hour]

DefaultCooldown == 30
DefaultMaxPerHour == 50

\* the configurations a notifications.json can give; <<>> is None
QuietWindows == {<<<<>>, <<>>>>, <<<<22>>, <<7>>>>, <<<<9>>, <<17>>>>, <<<<12>>, <<12>>>>}
NotifierConfigs ==
    { NotificationConfig(w[1], w[2], DefaultCooldown, m) : w \in QuietWindows, m \in {2} }

NoSender == "unborn"

NotifierInit ==
    /\ n_config \in NotifierConfigs \cup
                   {NotificationConfig(<<>>, <<>>, DefaultCooldown, DefaultMaxPerHour)}
    /\ n_clock = 1
    /\ n_times = [k \in NotifyKeys |-> <<>>]
    /\ n_hour_start = <<>>
    /\ n_hourly_count = 0
    /\ n_queue = <<>>
    /\ n_sending = FALSE
    /\ n_senders = [i \in 1..MaxSenders |-> NoSender]
    /\ n_caller = "idle"
    /\ n_handed = <<>>
    /\ n_made = 0
    /\ n_check = <<>>
    /\ n_accepted = <<>>

NotifierIdle ==
    NotifierInit /\ n_config = NotificationConfig(<<>>, <<>>, DefaultCooldown, DefaultMaxPerHour)

\* datetime.hour
HourOf(t) == (t % DaySeconds) \div HourSeconds

\* _is_quiet_hours
IsQuietHours(cfg, t) ==
    IF cfg.quiet_start_hour = <<>> \/ cfg.quiet_end_hour = <<>> THEN FALSE
    ELSE LET current_hour == HourOf(t)
             start == cfg.quiet_start_hour[1]
             end == cfg.quiet_end_hour[1] IN
         IF start < end
         THEN start <= current_hour \/ current_hour < end
         ELSE (start <= current_hour /\ current_hour < 24)
              \/ (0 <= current_hour /\ current_hour < end)

\* timedelta.seconds of (later - earlier): the seconds within the day, the whole
\* days of the difference being held in timedelta.days
TimedeltaSeconds(later, earlier) == (later - earlier) % DaySeconds

\* _check_rate_limit(key) at time now: what it returns and what it leaves in
\* _notification_times, _hour_start and _hourly_count
RateLimit(key, now) ==
    IF n_times[key] # <<>>
       /\ TimedeltaSeconds(now, n_times[key][1]) < n_config.cooldown_seconds
    THEN [ok |-> FALSE, times |-> n_times, hour_start |-> n_hour_start,
          hourly_count |-> n_hourly_count]
    ELSE LET reset == IF n_hour_start = <<>> THEN TRUE
                      ELSE now - n_hour_start[1] > HourSeconds
             count == IF reset THEN 0 ELSE n_hourly_count
             hstart == IF reset THEN <<now>> ELSE n_hour_start IN
         IF count >= n_config.max_per_hour
         THEN [ok |-> FALSE, times |-> n_times, hour_start |-> hstart,
               hourly_count |-> count]
         ELSE [ok |-> TRUE, times |-> [n_times EXCEPT ![key] = <<now>>],
               hour_start |-> hstart, hourly_count |-> count + 1]

\* what the rate limit is to answer, from the notifications accepted so far:
\* none of this key in the last cooldown_seconds, and fewer than max_per_hour
\* since the current hour window began
WindowStart(now) ==
    IF n_hour_start = <<>> THEN now
    ELSE IF now - n_hour_start[1] > HourSeconds THEN now ELSE n_hour_start[1]

RateExpected(key, now) ==
    /\ \A i \in 1..Len(n_accepted) :
          n_accepted[i].key = key => now - n_accepted[i].time >= n_config.cooldown_seconds
    /\ Cardinality({i \in 1..Len(n_accepted) : n_accepted[i].time >= WindowStart(now)})
          < n_config.max_per_hour

\* the record kept of a notify() call
NotifyRecord(key, severity, quiet, rate, expected, result) ==
    [key |-> key, severity |-> severity, now |-> NotifierNow, quiet |-> quiet,
     rate |-> rate, expected |-> expected, result |-> result]

\* the keyword arguments update_config is called with; volume is not a field
\* of NotificationConfig
UpdateConfigArgs ==
    { <<"enabled", FALSE>>, <<"enabled", TRUE>>, <<"max_per_hour", 1>>,
      <<"quiet_end_hour", <<12>>>>, <<"volume", 1>> }

\* update_config(**kwargs) with one keyword argument: a key the configuration
\* has is set, another is passed over, and the configuration is saved; n_check
\* holds the last notify() call made under the configuration in force
UpdateConfig(key, value) ==
    /\ n_caller = "idle"
    /\ n_config' = IF key \in DOMAIN n_config
                   THEN [n_config EXCEPT ![key] = value] ELSE n_config
    /\ n_check' = <<>>
    /\ UNCHANGED <<n_clock, n_times, n_hour_start, n_hourly_count, n_queue, n_sending,
                   n_senders, n_caller, n_handed, n_made, n_accepted>>
    /\ UNCHANGED notNotifier

\* notify() returning False before the rate limit is asked
NotifyRefused(key, severity, quiet) ==
    /\ n_check' = <<NotifyRecord(key, severity, quiet, <<>>, <<>>, FALSE)>>
    /\ UNCHANGED <<n_times, n_hour_start, n_hourly_count, n_queue, n_caller, n_handed,
                   n_made, n_accepted>>

\* notify(title, message, severity, alert_id=key, async_send): the checks, then
\* the notification is appended to the queue (async) or sent at once; sent is
\* what _send_notification returns, whether some channel delivered it
Notify(key, severity, async_send, sent) ==
    /\ n_caller = "idle"
    /\ n_made < MaxNotifications
    /\ async_send => sent
    /\ IF ~n_config.enabled
       THEN NotifyRefused(key, severity, <<>>)
       ELSE IF SeverityIndex(severity) < SeverityIndex(n_config.min_severity)
       THEN NotifyRefused(key, severity, <<>>)
       ELSE IF IsQuietHours(n_config, NotifierNow) /\ severity # "critical"
       THEN NotifyRefused(key, severity, <<TRUE>>)
       ELSE LET rate == RateLimit(key, NotifierNow)
                quiet == IsQuietHours(n_config, NotifierNow) IN
            /\ n_times' = rate.times
            /\ n_hour_start' = rate.hour_start
            /\ n_hourly_count' = rate.hourly_count
            /\ n_check' = <<NotifyRecord(key, severity, <<quiet>>, <<rate.ok>>,
                                         <<RateExpected(key, NotifierNow)>>,
                                         rate.ok /\ sent)>>
            /\ IF rate.ok
               THEN /\ n_accepted' = Append(n_accepted, [key |-> key, time |-> NotifierNow])
                    /\ n_made' = n_made + 1
                    /\ IF async_send
                       THEN /\ n_queue' = Append(n_queue, n_made + 1)
                            /\ n_caller' = "start_sender"
                            /\ UNCHANGED n_handed
                       ELSE /\ n_handed' = Append(n_handed, n_made + 1)
                            /\ UNCHANGED <<n_queue, n_caller>>
               ELSE UNCHANGED <<n_accepted, n_made, n_queue, n_caller, n_handed>>
    /\ UNCHANGED <<n_config, n_clock, n_sending, n_senders>>
    /\ UNCHANGED notNotifier

SendersCreated == Cardinality({i \in 1..MaxSenders : n_senders[i] # NoSender})

\* _start_sender, called by notify() after the append
StartSender ==
    /\ n_caller = "start_sender"
    /\ IF n_sending
       THEN UNCHANGED <<n_sending, n_senders>>
       ELSE /\ SendersCreated < MaxSenders
            /\ n_sending' = TRUE
            /\ n_senders' = [n_senders EXCEPT ![SendersCreated + 1] = "while"]
    /\ n_caller' = "idle"
    /\ UNCHANGED <<n_config, n_clock, n_times, n_hour_start, n_hourly_count, n_queue,
                   n_handed, n_made, n_check, n_accepted>>
    /\ UNCHANGED notNotifier

\* _sender_loop: while self._sending and self._queue: pop(0) and send
SenderWhile(i) ==
    /\ n_senders[i] = "while"
    /\ IF n_sending /\ n_queue # <<>>
       THEN /\ n_handed' = Append(n_handed, Head(n_queue))
            /\ n_queue' = Tail(n_queue)
            /\ n_senders' = [n_senders EXCEPT ![i] = "sleep"]
       ELSE /\ n_senders' = [n_senders EXCEPT ![i] = "after_loop"]
            /\ UNCHANGED <<n_handed, n_queue>>
    /\ UNCHANGED <<n_config, n_clock, n_times, n_hour_start, n_hourly_count, n_sending,
                   n_caller, n_made, n_check, n_accepted>>
    /\ UNCHANGED notNotifier

\* time.sleep(0.1)
SenderSleep(i) ==
    /\ n_senders[i] = "sleep"
    /\ n_senders' = [n_senders EXCEPT ![i] = "while"]
    /\ UNCHANGED <<n_config, n_clock, n_times, n_hour_start, n_hourly_count, n_queue,
                   n_sending, n_caller, n_handed, n_made, n_check, n_accepted>>
    /\ UNCHANGED notNotifier

\* self._sending = False, and the thread ends
SenderExit(i) ==
    /\ n_senders[i] = "after_loop"
    /\ n_sending' = FALSE
    /\ n_senders' = [n_senders EXCEPT ![i] = "done"]
    /\ UNCHANGED <<n_config, n_clock, n_times, n_hour_start, n_hourly_count, n_queue,
                   n_caller, n_handed, n_made, n_check, n_accepted>>
    /\ UNCHANGED notNotifier

\* time passes between two calls
NotifierTick ==
    /\ n_caller = "idle"
    /\ \E j \in (n_clock + 1)..Len(NotifierInstants) : n_clock' = j
    /\ UNCHANGED <<n_config, n_times, n_hour_start, n_hourly_count, n_queue, n_sending,
                   n_senders, n_caller, n_handed, n_made, n_check, n_accepted>>
    /\ UNCHANGED notNotifier

\* notify() with async_send=True beside the sender thread
NotifierNext ==
    \/ \E key \in NotifyKeys, severity \in NotifySeverities :
          Notify(key, severity, TRUE, TRUE)
    \/ \E kwarg \in UpdateConfigArgs : UpdateConfig(kwarg[1], kwarg[2])
    \/ StartSender
    \/ \E i \in 1..MaxSenders : SenderWhile(i)
    \/ \E i \in 1..MaxSenders : SenderSleep(i)
    \/ \E i \in 1..MaxSenders : SenderExit(i)
    \/ NotifierTick

\* notify() with async_send=False
NotifyNext ==
    \/ \E key \in NotifyKeys, severity \in NotifySeverities, sent \in BOOLEAN :
          Notify(key, severity, FALSE, sent)
    \/ \E kwarg \in UpdateConfigArgs : UpdateConfig(kwarg[1], kwarg[2])
    \/ NotifierTick

\* a _sender_loop thread is running
SenderAlive == \E i \in 1..MaxSenders : n_senders[i] \notin {NoSender, "done"}

\* C34: every notification notify() queued is handed to _send_notification:
\* outside a notify() call none stays in the queue while no sender thread runs
C34_QueueNeverStranded == (n_caller = "idle" /\ ~SenderAlive) => n_queue = <<>>

\* the hour lies in the window from start (inclusive) to end (exclusive), which
\* wraps past midnight when start > end; no window when either hour is None
InQuietWindow(cfg, hour) ==
    IF cfg.quiet_start_hour = <<>> \/ cfg.quiet_end_hour = <<>> THEN FALSE
    ELSE IF cfg.quiet_start_hour[1] <= cfg.quiet_end_hour[1]
         THEN cfg.quiet_start_hour[1] <= hour /\ hour < cfg.quiet_end_hour[1]
         ELSE cfg.quiet_start_hour[1] <= hour \/ hour < cfg.quiet_end_hour[1]

\* C38: in a notify() call that reaches the quiet-hours check, _is_quiet_hours()
\* is true exactly when the current hour lies in the configured window, and a
\* call that is refused there is a non-critical one made inside the window
C38_QuietHoursWindow ==
    (n_check # <<>> /\ n_check[1].quiet # <<>>) =>
        /\ n_check[1].quiet[1] = InQuietWindow(n_config, HourOf(n_check[1].now))
        /\ (n_check[1].rate = <<>>) =>
               (InQuietWindow(n_config, HourOf(n_check[1].now))
                /\ n_check[1].severity # "critical")

\* C39: the rate limit accepts a notification exactly when none of the same key
\* was accepted in the preceding cooldown_seconds and fewer than max_per_hour
\* were accepted in the current hour window, the notifications it refused
\* counting for nothing
C39_RateLimitExact ==
    (n_check # <<>> /\ n_check[1].rate # <<>>) => n_check[1].rate = n_check[1].expected

(***************************************************************************)
(* The specifications: one per component, each leaving the others alone.   *)
(***************************************************************************)
\* the other components as they stand while one component is exercised
ArpIdle == ArpInit /\ gateway_ip = None
OsOff   == OsInit /\ ~ip_forward
CaptureIdle == CaptureInit /\ capture_blocklist = {}
DnsIdle == DnsInit /\ dns_domains = {} /\ block_mode = "nxdomain" /\ CaptureIdle
KeywordsIdle == KeywordsInit /\ kw_file = <<>>
Others  == PolicyInit /\ ProxyInit /\ DevicesInit /\ MonitorInit /\ ScheduleCallInit
           /\ CertInit /\ ParseInit /\ KeywordsIdle /\ DbInit /\ RtIdle /\ NotifierIdle
\* the engine built with the defaults, on an interface whose sends do not fail
QuietDefault == QuietInit /\ quiet_mode /\ spoof_interval = DefaultInterval
                /\ ~sendp_raises
Rest    == Others /\ QuietDefault

Init == ArpInit /\ OsOff /\ Rest /\ DnsIdle
Next == ArpNext
Spec == Init /\ [][Next]_vars

\* the ARP engine on a host whose routing switch is already on
InitForwarding == ArpInit /\ gateway_ip = GatewayIP /\ OsInit /\ ip_forward
                  /\ Rest /\ DnsIdle
NextForwarding == ArpNext
SpecForwarding == InitForwarding /\ [][NextForwarding]_vars

\* the ARP engine and its set_quiet_mode, built with any arguments
InitQuiet == ArpInit /\ gateway_ip = GatewayIP /\ OsOff /\ Others /\ DnsIdle
             /\ QuietInit /\ ~sendp_raises
NextQuiet ==
    \/ ArpNext
    \/ \E enabled \in BOOLEAN, interval \in IntervalArgs : SetQuietMode(enabled, interval)
SpecQuiet == InitQuiet /\ [][NextQuiet]_vars

\* the ARP engine on an interface whose sends can fail
InitFlaky == ArpInit /\ gateway_ip = GatewayIP /\ OsOff /\ Others /\ DnsIdle
             /\ QuietInit /\ quiet_mode /\ spoof_interval = DefaultInterval
             /\ sendp_raises
NextFlaky == ArpNext
SpecFlaky == InitFlaky /\ [][NextFlaky]_vars

\* the interceptor and the capture, built with the same blocklist, on the same
\* packets
InitMatchers == ArpIdle /\ OsOff /\ Rest /\ DnsInit /\ block_mode = "nxdomain"
                /\ CaptureInit
                /\ dns_domains = {StrLower(d) : d \in capture_blocklist}
NextMatchers ==
    \/ \E q \in QuerySlots, packet \in MatcherPacketArgs : PacketArrives(q, packet)
    \/ \E q \in QuerySlots : ProcessPacket(q)
    \/ \E q \in QuerySlots, ends \in BOOLEAN : ProcessNext(q, ends)
    \/ \E q \in QuerySlots : SendResponse(q)
    \/ \E q \in QuerySlots : CaptureProcessPacket(q)
    \/ \E q \in QuerySlots, ends \in BOOLEAN : CaptureNext(q, ends)
    \/ \E domain \in CaptureDomainArgs : CaptureAddToBlocklist(domain)
    \/ \E domain \in CaptureDomainArgs : CaptureRemoveFromBlocklist(domain)
    \/ \E domains \in BlocklistLists : CaptureSetBlocklist(domains)
SpecMatchers == InitMatchers /\ [][NextMatchers]_vars

InitCert == ArpIdle /\ OsOff /\ Rest /\ DnsIdle
NextCert == CertNext
SpecCert == InitCert /\ [][NextCert]_vars

\* a parse call runs on until it returns
InitParse == ArpIdle /\ OsOff /\ Rest /\ DnsIdle
NextParse == ParseNext
SpecParse == InitParse /\ [][NextParse]_vars /\ WF_vars(ParseRuns)

InitPolicy == ArpIdle /\ OsOff /\ Rest /\ DnsIdle
NextPolicy == PolicyNext
SpecPolicy == InitPolicy /\ [][NextPolicy]_vars

InitProxy == ArpIdle /\ OsOff /\ Rest /\ DnsIdle
NextProxy == ProxyNext
SpecProxy == InitProxy /\ [][NextProxy]_vars

InitDns == ArpIdle /\ OsInit /\ Rest /\ DnsInit /\ dns_domains = {} /\ CaptureIdle
NextDns == DnsNext
SpecDns == InitDns /\ [][NextDns]_vars

InitDevices == ArpIdle /\ OsOff /\ Rest /\ DnsIdle
NextDevices == DevicesNext
SpecDevices == InitDevices /\ [][NextDevices]_vars

InitMonitor == ArpIdle /\ OsOff /\ Rest /\ DnsIdle
NextMonitor == MonitorNext
SpecMonitor == InitMonitor /\ [][NextMonitor]_vars

InitSchedule == ArpIdle /\ OsOff /\ Rest /\ DnsIdle
NextSchedule == ScheduleNext
SpecSchedule == InitSchedule /\ [][NextSchedule]_vars

\* the keyword matcher constructed over any keyword file
InitKeywords == ArpIdle /\ OsOff /\ DnsIdle /\ QuietDefault /\ PolicyInit /\ ProxyInit
                /\ DevicesInit /\ MonitorInit /\ ScheduleCallInit /\ CertInit
                /\ ParseInit /\ KeywordsInit /\ DbInit /\ RtIdle /\ NotifierIdle
NextKeywords == KeywordsNext
SpecKeywords == InitKeywords /\ [][NextKeywords]_vars

\* the database under inserts and cleanups
InitDb == ArpIdle /\ OsOff /\ Rest /\ DnsIdle
NextDb == DbNext
SpecDb == InitDb /\ [][NextDb]_vars

\* objects written as documents and read back
InitRoundTrip == ArpIdle /\ OsOff /\ DnsIdle /\ QuietDefault /\ PolicyInit /\ ProxyInit
                 /\ DevicesInit /\ MonitorInit /\ ScheduleCallInit /\ CertInit
                 /\ ParseInit /\ KeywordsIdle /\ DbInit /\ RtInit /\ NotifierIdle
NextRoundTrip == RtNext
SpecRoundTrip == InitRoundTrip /\ [][NextRoundTrip]_vars

\* the components other than the notifier, as they stand
NotNotifierIdle == ArpIdle /\ OsOff /\ DnsIdle /\ QuietDefault /\ PolicyInit /\ ProxyInit
                   /\ DevicesInit /\ MonitorInit /\ ScheduleCallInit /\ CertInit
                   /\ ParseInit /\ KeywordsIdle /\ DbInit /\ RtIdle

\* notify() queueing for the sender thread, default configuration
InitNotifier == NotNotifierIdle /\ NotifierIdle
NextNotifier == NotifierNext
SpecNotifier == InitNotifier /\ [][NextNotifier]_vars

\* notify() sending at once, under any of the configurations
InitNotify == NotNotifierIdle /\ NotifierInit /\ n_config \in NotifierConfigs
NextNotify == NotifyNext
SpecNotify == InitNotify /\ [][NextNotify]_vars

====
